---- MODULE Spec2Model ----
(***************************************************************************)
(* Model of the paginated fetch engine of the normal-distribution app:     *)
(* DataService (data.service.ts).  One behaviour is one invocation of an   *)
(* orchestrator (_getAllRawMetricsParallel behind getAllRawMetrics, or the *)
(* sequential _getAllRawMetrics) against a backend that answers every      *)
(* request with a response kind chosen by the environment.                 *)
(*                                                                         *)
(* Wire timestamps are ISO-8601 strings truncated to seconds; the model    *)
(* represents such a string by its whole number of seconds since the       *)
(* epoch.  Internal times are epoch milliseconds.                          *)
(*                                                                         *)
(* Granularity: an action is the code that runs between two awaits.  The   *)
(* answer of a request and everything that runs on from it without         *)
(* suspending is one action; the continuation of a Promise.race or         *)
(* Promise.all is a job of its own, so wrappers of other tasks that settle *)
(* in the same turn run before it.                                         *)
(***************************************************************************)
EXTENDS Integers, Sequences, FiniteSets, TLC

(* ------------------------------ bounds -------------------------------- *)
\* Page size of the model; stands for queryLimit = 5000 of the source, scaled
\* down so that a dataset of a few points already needs several pages.
QueryLimit == 2
\* Largest number of points the backend holds inside the window.
MaxPoints == 5
\* maxConcurrent of a batch ranges over 1..MaxConcurrentBound.
MaxConcurrentBound == 2
\* timeRange.from ranges over whole and fractional seconds up to this second.
MaxFromSec == 1

(* ------------------------- program constants -------------------------- *)
\* default of the parameter `retries` of _fetchRawDataPage
DefaultRetries == 3

(* ------------------------------ helpers ------------------------------- *)
Min(a, b) == IF a <= b THEN a ELSE b

\* Math.floor in place of Math.ceil.
FloorDiv(a, b) == a \div b

\* Math.ceil(a / b) for naturals a, b > 0
CeilDiv(a, b) == (a + b - 1) \div b

\* new Date(ms).toISOString().split('.')[0] + 'Z': the milliseconds are cut
\* off; the resulting string is represented by its number of seconds.
ToIXONISOString(ms) == ms \div 1000

\* Date.parse of a wire timestamp: epoch milliseconds of that second.
DateParse(sec) == sec * 1000

\* A wire point (Metric): time is a wire timestamp, value the tag's value.
Metric(t, v) == [time |-> t, value |-> v]

\* Values of a wire point that are no finite number, held as negative
\* codes: a non-numeric value (NaN after coercion), a value missing from
\* `values` (undefined), null, and a number beyond the double range, which
\* JSON parsing turns into +Infinity or -Infinity.  Finite values are >= 0.
NonFinite ==
  [NaN |-> -1, missing |-> -2, null |-> -3, plusInfinity |-> -4,
   minusInfinity |-> -5]

NonFiniteValues ==
  {NonFinite.NaN, NonFinite.missing, NonFinite.null, NonFinite.plusInfinity,
   NonFinite.minusInfinity}

\* Array.prototype.sort with comparator Date.parse(a.time) - Date.parse(b.time):
\* a stable sort, here by insertion from the left.
RECURSIVE InsertByTime(_, _)
InsertByTime(sorted, m) ==
  IF sorted = <<>> THEN <<m>>
  ELSE IF DateParse(Head(sorted).time) - DateParse(m.time) <= 0
       THEN <<Head(sorted)>> \o InsertByTime(Tail(sorted), m)
       ELSE <<m>> \o sorted

RECURSIVE SortByTime(_)
SortByTime(s) ==
  IF s = <<>> THEN <<>>
  ELSE InsertByTime(SortByTime(SubSeq(s, 1, Len(s) - 1)), s[Len(s)])

(* ------------------------------- state -------------------------------- *)
VARIABLES
  strategy,        \* "parallel" (_getAllRawMetricsParallel) or "sequential"
  from,            \* context.timeRange.from, epoch milliseconds
  backend,         \* the points of the window, ascending, as the API pages them
  prevPoints,      \* response.data.points of the look-back query (0 or 1 point)
  maxConcurrent,   \* argument of _fetchWithConcurrencyLimit
  identity,        \* how the resolution of the selector ends: "ok", "noMetric",
                   \* "noAgent" or "noTag"
  pc,              \* position of the orchestrator
  totalCount,      \* result of _getTotalCount
  pagesNeeded,     \* tasks.length of the batch
  fetch,           \* per page: state of its _fetchRawDataPage call chain
  sched,           \* locals of _fetchWithConcurrencyLimit
  promise,         \* per task: state of its wrapper promise
  completedPages,  \* counter of the parallel orchestrator
  seqOffset,       \* offset of the outstanding sequential request
  path,            \* branch taken: "empty", "single", "parallel", "sequential"
  metrics,         \* data / allMetrics / metrics accumulated so far
  error,           \* what made the orchestrator throw, "none" if nothing
  raw,             \* the Metric[] the orchestrator returned
  out,             \* the sequence getAllRawMetrics returned
  countResp,       \* kind of the answer to the count query, "none" before it
  progress,        \* the calls of the progress observer so far
  outcome          \* how getDataAndDraw leaves the fetch: "none" while it
                   \* runs, an error message, or "data" when it goes on to
                   \* the statistics

\* State of the statistics stage: getDataAndDraw from the return of
\* getAllRawMetrics on, and generateNormalDistributionData.
VARIABLES
  caller,          \* who calls generateNormalDistributionData: "getDataAndDraw",
                   \* "direct" (a call with arguments of its own) or "none"
  dataset,         \* values of the points getAllRawMetrics returned
  ignoreZero,      \* argument of getDataAndDraw
  dpc,             \* position of the caller
  stats,           \* result of calculateStatistics
  histogramData,   \* the buckets [value, count]
  args,            \* arguments of the generateNormalDistributionData call
  gen,             \* locals and return value of generateNormalDistributionData
  drawn,           \* how getDataAndDraw ends: an error or "chart"
  calc             \* a call of getConfidenceInterval or
                   \* getZScoreForConfidence: its arguments and return value

\* State of the component (normal-distribution.svelte) and of the chart it
\* shares between its updates.
VARIABLES
  view,            \* loading, error, standardDeviation of the component and
                   \* the option set on the chart
  upd              \* per update: position of its updateChart call

\* Calls of _fetchWithConcurrencyLimit that overlap in time, each with the
\* page tasks of the orchestrator that made it.
VARIABLES
  batches          \* per call: its arguments, its locals, the state of its
                   \* tasks, and completedPages and the progress calls of
                   \* its caller

\* One getAllRawMetrics invocation as the API sees it, and the time range
\* of the context it reads.
VARIABLES
  timeRange,       \* context.timeRange, epoch milliseconds
  invocation       \* position of the invocation, its page fetches and the
                   \* requests it has sent

fetchVars == <<strategy, from, backend, prevPoints, maxConcurrent, pc,
               totalCount, pagesNeeded, fetch, sched, promise, completedPages,
               seqOffset, path, metrics, error, raw, out, identity, countResp,
               progress, outcome>>

drawVars == <<caller, dataset, ignoreZero, dpc, stats, histogramData, args,
              gen, drawn, calc>>

viewVars == <<view, upd>>

batchVars == <<batches>>

rangeVars == <<timeRange, invocation>>

vars == <<fetchVars, drawVars, viewVars, batchVars, rangeVars>>

inputs == <<strategy, from, backend, prevPoints, maxConcurrent, identity>>

MaxPages == (MaxPoints + QueryLimit - 1) \div QueryLimit
PageIdx == 0 .. (MaxPages - 1)

\* The window's points: n points at consecutive seconds, the first one at
\* the (truncated) window start plus `shift` seconds; values identify points.
BackendOf(fromMs, n, shift) ==
  [k \in 1..n |-> Metric(ToIXONISOString(fromMs) + shift + (k - 1), k)]

\* The values the last point of a window of n points may carry: its own,
\* or, in a window of at most one page, one that is no finite number.
LastValues(n) ==
  IF 1 <= n /\ n <= QueryLimit THEN {n} \cup NonFiniteValues ELSE {n}

\* The points b with the value of the last one replaced by v.
WithLastValue(b, v) ==
  [k \in 1..Len(b) |-> IF k = Len(b) THEN Metric(b[k].time, v) ELSE b[k]]

\* The page the API returns for (offset, limit), order 'asc'.
Page(offset, limit) ==
  SubSeq(backend, offset + 1, Min(offset + limit, Len(backend)))

\* A page fetch that has not been called yet.
IdleFetch ==
  [st |-> "idle", retries |-> 0, requests |-> 0, offset |-> 0, limit |-> 0,
   responses |-> <<>>, waits |-> <<>>, thrown |-> FALSE, result |-> <<>>]

IdleSched ==
  [pc |-> "idle", i |-> 0, executing |-> {}, started |-> <<>>,
   settled |-> <<>>,
   results |-> [k \in PageIdx |-> [filled |-> FALSE, value |-> <<>>]],
   waitSet |-> {}, waitOutcome |-> "none"]

\* generateNormalDistributionData before it is called.
IdleGen ==
  [pc |-> "idle", x |-> 0, xValues |-> <<>>, yValues |-> <<>>, more |-> 0,
   maxYDistrib |-> 0, entered |-> FALSE, ret |-> <<>>]

NoStats == [n |-> 0, sum |-> 0, varNum |-> 0, varDen |-> 0]

NoArgs ==
  [mean |-> 0, standardDeviation |-> 0, dataLength |-> 0, binSize |-> 0,
   maxY |-> 0]

NoDrawn == [kind |-> "none", message |-> "", mean |-> [num |-> 0, den |-> 0]]

\* The number of updateChart calls of one behaviour.
MaxUpdates == 3

\* An updateChart call that has not been made.
IdleUpdate == [st |-> "idle", trigger |-> "none", result |-> "none"]

\* The component after its script has run, before onMount: no error (0 for
\* the empty message), standardDeviation 0, no option set on the chart.
ViewAtRest ==
  /\ view = [loading |-> TRUE, error |-> 0, standardDeviation |-> 0,
             chart |-> 0]
  /\ upd = [k \in 1..MaxUpdates |-> IdleUpdate]

\* No call of getConfidenceInterval or getZScoreForConfidence.
NoCalc ==
  [mean |-> 0, standardDeviation |-> 0, zScore |-> 0, confidence |-> 0,
   returned |-> FALSE, ret |-> <<>>]

\* The two calls of _fetchWithConcurrencyLimit that overlap: the one made
\* first and the one made second.
Calls == {1, 2}

\* A call of _fetchWithConcurrencyLimit that has not been made.
IdleBatch ==
  [st |-> "idle", tasks |-> 0, maxConcurrent |-> 1, sched |-> IdleSched,
   task |-> [k \in PageIdx |-> "idle"], completedPages |-> 0,
   progress |-> <<>>, ret |-> <<>>]

\* No call of _fetchWithConcurrencyLimit of its own.
BatchAtRest == batches = [b \in Calls |-> IdleBatch]

\* context.timeRange ranges over MaxRanges windows.
MaxRanges == 2

\* The windows the time range of the context can be set to.
TimeRanges ==
  {[from |-> k * 1000, to |-> k * 1000 + 5000] : k \in 1..MaxRanges}

\* A page fetch of the invocation that has not been called.
IdlePage == [st |-> "idle", retries |-> 0]

\* getAllRawMetrics before it is called.
IdleInvocation ==
  [pc |-> "idle", pages |-> 0, page |-> [k \in PageIdx |-> IdlePage],
   requests |-> {}]

\* No invocation followed request by request.
RangeAtRest ==
  /\ timeRange = [from |-> 1000, to |-> 6000]
  /\ invocation = IdleInvocation

\* The statistics stage has not been entered.
DrawAtRest ==
  /\ caller = "none"
  /\ dataset = <<>>
  /\ ignoreZero = FALSE
  /\ dpc = "idle"
  /\ stats = NoStats
  /\ histogramData = <<>>
  /\ args = NoArgs
  /\ gen = IdleGen
  /\ drawn = NoDrawn
  /\ calc = NoCalc

Init ==
  /\ DrawAtRest
  /\ ViewAtRest
  /\ BatchAtRest
  /\ RangeAtRest
  /\ strategy \in {"parallel", "sequential"}
  /\ from \in {s * 1000 + f : s \in 1..MaxFromSec, f \in {0, 500}}
  /\ \E n \in 0..MaxPoints, shift \in {0, 1} :
       \E v \in LastValues(n) :
         backend = WithLastValue(BackendOf(from, n, shift), v)
  /\ prevPoints \in {<<>>, <<Metric(ToIXONISOString(from) - 1, MaxPoints + 1)>>}
  /\ maxConcurrent \in 1..MaxConcurrentBound
  /\ identity \in IF strategy = "parallel"
                  THEN {"ok", "noMetric", "noAgent", "noTag"} ELSE {"ok"}
  /\ pc = "init"
  /\ totalCount = 0
  /\ pagesNeeded = 0
  /\ fetch = [k \in PageIdx |-> IdleFetch]
  /\ sched = IdleSched
  /\ promise = [k \in PageIdx |-> "none"]
  /\ completedPages = 0
  /\ seqOffset = 0
  /\ path = "none"
  /\ metrics = <<>>
  /\ error = "none"
  /\ raw = <<>>
  /\ out = <<>>
  /\ countResp = "none"
  /\ progress = <<>>
  /\ outcome = "none"

(* ------------------- _fetchRawDataPage (one page) --------------------- *)
\* The call _fetchRawDataPage(sourceId, tagSlug, offset, limit) with the
\* default retries: the body is built and the first request is sent.
CallFetchRawDataPage(offset, limit) ==
  [IdleFetch EXCEPT !.st = "inflight", !.retries = DefaultRetries,
                    !.requests = 1, !.offset = offset, !.limit = limit]

\* The wait counted from 3.
BackoffMsFromThree(retries) == (3 - retries) * 1000

\* backoffMs of a rate-limited response received with `retries` left.
BackoffMs(retries) == (4 - retries) * 1000

\* Retrying whatever the number of retries left.
RetriesAlways(f, kind) == kind = "rate" /\ f.retries >= 0

\* Does this response make the page fetch wait and call itself again?
Retries(f, kind) == kind = "rate" /\ f.retries > 0

\* Raising when the retries are exhausted.
ThrowsOnRateLimit(f, kind) == kind # "ok"

\* Does the response that ends the call chain make it throw?  Only a
\* rejected fetch or a body that response.json() cannot parse does.
Throws(f, kind) == kind = "bad"

\* data.data?.points || [] of the response that ends the call chain: the
\* requested page for a data response, nothing for a rate-limit body.
PagePoints(f, kind) == IF kind = "ok" THEN Page(f.offset, f.limit) ELSE <<>>

(* ------------------ _fetchWithConcurrencyLimit ------------------------ *)
\* The loop with the test `executing.size > maxConcurrent`.
RECURSIVE RunLoopOffByOne(_, _, _)
RunLoopOffByOne(s, len, maxC) ==
  IF s.i < len
  THEN LET reg == [s EXCEPT !.executing = @ \cup {s.i},
                            !.started = Append(@, s.i),
                            !.i = @ + 1]
       IN IF Cardinality(reg.executing) > maxC
          THEN [reg EXCEPT !.pc = "race", !.waitSet = reg.executing,
                           !.waitOutcome = "pending"]
          ELSE RunLoopOffByOne(reg, len, maxC)
  ELSE [s EXCEPT !.pc = "all", !.waitSet = s.executing,
                 !.waitOutcome = IF s.executing = {} THEN "resolved"
                                 ELSE "pending"]

\* The for loop from position s.i up to its next await: each task is called
\* and registered; the loop suspends on Promise.race of the registered
\* promises once the registry holds maxConcurrent of them, and on
\* Promise.all of the registry after the last task.  s.i is the index of
\* the next task to start.
RECURSIVE RunLoop(_, _, _)
RunLoop(s, len, maxC) ==
  IF s.i < len
  THEN LET reg == [s EXCEPT !.executing = @ \cup {s.i},
                            !.started = Append(@, s.i),
                            !.i = @ + 1]
       IN IF Cardinality(reg.executing) >= maxC
          THEN [reg EXCEPT !.pc = "race", !.waitSet = reg.executing,
                           !.waitOutcome = "pending"]
          ELSE RunLoop(reg, len, maxC)
  ELSE [s EXCEPT !.pc = "all", !.waitSet = s.executing,
                 !.waitOutcome = IF s.executing = {} THEN "resolved"
                                 ELSE "pending"]

\* Storing results in completion order (results.push).
ResultSlotByCompletion(index, s) ==
  Cardinality({k \in PageIdx : s.results[k].filled})

\* The slot of `results` the wrapper of task `index` writes to.
ResultSlot(index, s) == index

\* A wrapper that leaves its entry in the registry.
WrapperKeepsEntry(s, index, ok, value) ==
  LET observed == s.waitOutcome = "pending" /\ index \in s.waitSet
      left     == s.waitSet \ {index}
  IN [s EXCEPT
        !.results = IF ok
                    THEN [@ EXCEPT ![ResultSlot(index, s)] =
                                     [filled |-> TRUE, value |-> value]]
                    ELSE @,
        !.settled = Append(@, index),
        !.waitSet = IF observed /\ s.pc = "all" /\ ok THEN left ELSE @,
        !.waitOutcome =
           IF ~observed THEN @
           ELSE IF ~ok THEN "rejected"
           ELSE IF s.pc = "race" THEN "resolved"
           ELSE IF left = {} THEN "resolved" ELSE "pending"]

\* The wrapper of task `index` runs on after `await task()`: on success the
\* result is stored, in both cases the registry entry is deleted and the
\* wrapper's promise settles, which settles a pending race that observes it
\* and counts towards (or rejects) a pending Promise.all.
WrapperSettles(s, index, ok, value) ==
  LET observed == s.waitOutcome = "pending" /\ index \in s.waitSet
      left     == s.waitSet \ {index}
  IN [s EXCEPT
        !.results = IF ok
                    THEN [@ EXCEPT ![ResultSlot(index, s)] =
                                     [filled |-> TRUE, value |-> value]]
                    ELSE @,
        !.executing = @ \ {index},
        !.settled = Append(@, index),
        !.waitSet = IF observed /\ s.pc = "all" /\ ok THEN left ELSE @,
        !.waitOutcome =
           IF ~observed THEN @
           ELSE IF ~ok THEN "rejected"
           ELSE IF s.pc = "race" THEN "resolved"
           ELSE IF left = {} THEN "resolved" ELSE "pending"]

\* The tasks a run of the loop has started: task k calls the page fetch for
\* offset k * queryLimit.
StartTasks(f, before, after) ==
  [k \in PageIdx |->
     IF k \in after.executing \ before.executing
     THEN CallFetchRawDataPage(k * QueryLimit, QueryLimit)
     ELSE f[k]]

(* ---------------------- result assembly ------------------------------- *)
\* for (const pageResults of results) allMetrics.push(...pageResults),
\* over the slots k .. n-1.
RECURSIVE MergeResults(_, _, _)
MergeResults(results, k, n) ==
  IF k >= n THEN <<>>
  ELSE results[k].value \o MergeResults(results, k + 1, n)

\* Spreading an unfilled slot (undefined) throws a TypeError.
MergeThrows(results, n) == \E k \in 0..(n - 1) : ~results[k].filled

\* The look-back point with the time the API reported for it.
LastPointUnchanged(points, fromMs) ==
  IF points = <<>> THEN <<>> ELSE <<points[1]>>

\* _getLastPointOfPreviousPeriod, given the look-back response: nothing when
\* the response has no point, else the point with its time replaced by the
\* `end` of the look-back query, the wire form of timeRange.from.
LastPointOfPreviousPeriod(points, fromMs) ==
  IF points = <<>> THEN <<>>
  ELSE <<Metric(ToIXONISOString(fromMs), points[1].value)>>

\* Going on to the page fetch whatever the count.
BranchWithoutEmpty(count) ==
  IF count <= QueryLimit THEN "single" ELSE "parallel"

\* The branch of _getAllRawMetricsParallel a total count selects.
Branch(count) ==
  IF count = 0 THEN "empty"
  ELSE IF count <= QueryLimit THEN "single" ELSE "parallel"

\* Going on only after a page longer than the limit.
HasNextAboveLimit(points, limit) == Len(points) > limit

\* hasNext of the sequential strategy: the page just received was full.
HasNext(points, limit) == Len(points) = limit

\* Appending the look-back point twice.
AssembleTwice(p, acc, last) ==
  CASE p = "empty"      -> last \o last
    [] p = "single"     -> acc \o last \o last
    [] p = "sequential" -> acc \o last \o last
    [] p = "parallel"   -> SortByTime(acc \o last \o last)

\* What the orchestrator returns once the look-back answer is known.
Assemble(p, acc, last) ==
  CASE p = "empty"      -> last
    [] p = "single"     -> acc \o last
    [] p = "sequential" -> acc \o last
    [] p = "parallel"   -> SortByTime(acc \o last)

\* The global isNaN: its argument is coerced with Number first, which
\* makes undefined NaN and null 0.
IsNaN(v) == v \in {NonFinite.NaN, NonFinite.missing}

\* parseFloat((d.value * factor).toFixed(decimals)) with factor 1: null * 1
\* is 0, an infinite value stays infinite ("Infinity" is parsed back), and a
\* finite value, a whole number here, is left as it is.
ScaleAndRound(v) == IF v = NonFinite.null THEN 0 ELSE v

\* The map / filter / map chain of getAllRawMetrics.
ToSamplePoints(ms) ==
  LET parsed == [k \in 1..Len(ms) |->
                   [time |-> DateParse(ms[k].time), value |-> ms[k].value]]
      kept   == SelectSeq(parsed, LAMBDA d : ~IsNaN(d.value))
  IN [k \in 1..Len(kept) |->
        [time |-> kept[k].time, value |-> ScaleAndRound(kept[k].value)]]

(* ----------------- identity, count and progress ----------------------- *)
\* How getDataAndDraw ends when the selector cannot be resolved: without a
\* configured metric the read of metric.unit at its entry throws a TypeError
\* before getAllRawMetrics is called; a failed agent lookup rejects with the
\* error of _getAgent; a selector no tag matches makes getAllRawMetrics
\* return null, which getDataAndDraw turns into its own error.
IdentityOutcome(id) ==
  CASE id = "noMetric" -> "TypeError"
    [] id = "noAgent"  -> "Agent not found"
    [] id = "noTag"    -> "No data available"
    [] id = "ok"       -> "none"

\* One call of the progress observer.
Event(stage, current, total) ==
  [stage |-> stage, current |-> current, total |-> total]

\* The observer calls of getAllRawMetrics and the orchestrator up to the
\* count query, for a selector that resolves as `id`.
EntryEvents(id) ==
  CASE id = "noMetric" -> <<>>
    [] id = "ok" -> <<Event("Connecting...", 0, 0),
                      Event("Counting data points...", 0, 0)>>
    [] OTHER -> <<Event("Connecting...", 0, 0)>>

\* Reporting the index of the page instead of the completed count.
TaskProgressByIndex(i, completed, pages) ==
  Event("Fetching data...", i + 1, pages)

\* The observer call of task i after its page fetch returned, `completed`
\* being completedPages after its increment.
TaskProgress(i, completed, pages) ==
  Event("Fetching data...", completed, pages)

\* Does the answer to the count query make _getTotalCount throw?  Only a
\* rejected fetch or an unparsable body does.
CountThrows(kind) == kind = "bad"

\* response.data?.points?.[0]?.values?.[tagSlug] || 0
CountOf(kind) == IF kind = "ok" THEN Len(backend) ELSE 0

(* ------------------------------ actions ------------------------------- *)
\* getDataAndDraw is called (parallel strategy): the selector is resolved
\* and, if that succeeds, the orchestrator sends the count query.  The
\* sequential orchestrator is entered directly and sends the request for
\* the page at offset 0.
Start ==
  /\ pc = "init"
  /\ IF strategy = "sequential"
     THEN /\ pc' = "seq"
          /\ UNCHANGED <<error, progress, outcome>>
     ELSE /\ pc' = IF identity = "ok" THEN "count" ELSE "failed"
          /\ error' = IF identity = "ok" THEN error ELSE "identity"
          /\ outcome' = IdentityOutcome(identity)
          /\ progress' = EntryEvents(identity)
  /\ UNCHANGED <<drawVars, viewVars, batchVars, rangeVars>>
  /\ UNCHANGED <<inputs, totalCount, pagesNeeded, fetch, sched, promise,
                 completedPages, seqOffset, path, metrics, raw, out,
                 countResp>>

\* The count query is answered: "ok" carries the number of points of the
\* window, "nocount" is a JSON body without a count (read as 0), "bad" is a
\* network failure or an unparsable body.  The orchestrator runs on up to
\* its next await: the look-back query, the single page fetch, or the first
\* suspension of the batch.
CountResponse(kind) ==
  /\ pc = "count"
  /\ countResp' = kind
  /\ IF CountThrows(kind)
     THEN /\ pc' = "failed" /\ error' = "count"
          /\ outcome' = "fetch error"
          /\ UNCHANGED <<totalCount, pagesNeeded, fetch, sched, path,
                         progress>>
     ELSE LET count == CountOf(kind)
              pages == CeilDiv(count, QueryLimit)
              s0    == [IdleSched EXCEPT !.pc = "loop"]
              s1    == RunLoop(s0, pages, maxConcurrent)
          IN /\ totalCount' = count
             /\ path' = Branch(count)
             /\ UNCHANGED <<error, outcome>>
             /\ CASE Branch(count) = "empty" ->
                       /\ pc' = "backfill"
                       /\ UNCHANGED <<pagesNeeded, fetch, sched, progress>>
                  [] Branch(count) = "single" ->
                       /\ pc' = "single"
                       /\ progress' =
                            Append(progress, Event("Fetching data...", 0, 1))
                       /\ fetch' = [fetch EXCEPT
                                      ![0] = CallFetchRawDataPage(0, QueryLimit)]
                       /\ UNCHANGED <<pagesNeeded, sched>>
                  [] Branch(count) = "parallel" ->
                       /\ pc' = "batch"
                       /\ pagesNeeded' = pages
                       /\ progress' =
                            Append(progress, Event("Fetching data...", 0, pages))
                       /\ sched' = s1
                       /\ fetch' = StartTasks(fetch, s0, s1)
  /\ UNCHANGED <<drawVars, viewVars, batchVars, rangeVars>>
  /\ UNCHANGED <<inputs, promise, completedPages, seqOffset, metrics, raw, out>>

\* A request of page fetch i is answered: "ok" is a data response, "rate" a
\* rate-limit (429) response with a JSON body without points, "nopoints"
\* any other JSON body without data.points, "bad" a network failure or an
\* unparsable body.  A rate-limit response with
\* retries left starts the backoff wait; any other response ends the call
\* chain, and the awaiting code runs on: the orchestrator (single page) or
\* the task and its wrapper (batch).
PageResponse(i, kind) ==
  /\ fetch[i].st = "inflight"
  /\ IF Retries(fetch[i], kind)
     THEN /\ fetch' = [fetch EXCEPT ![i].st = "backoff",
                         ![i].responses = Append(@, kind),
                         ![i].waits = Append(@, BackoffMs(fetch[i].retries))]
          /\ UNCHANGED <<pc, sched, promise, completedPages, metrics, error,
                         progress, outcome>>
     ELSE LET ok  == ~Throws(fetch[i], kind)
              pts == PagePoints(fetch[i], kind)
          IN /\ fetch' = [fetch EXCEPT ![i].st = "settled",
                            ![i].responses = Append(@, kind),
                            ![i].thrown = ~ok,
                            ![i].result = IF ok THEN pts ELSE @]
             /\ IF path = "single"
                THEN /\ pc' = IF ok THEN "backfill" ELSE "failed"
                     /\ error' = IF ok THEN error ELSE "page"
                     /\ outcome' = IF ok THEN outcome ELSE "fetch error"
                     /\ metrics' = IF ok THEN pts ELSE metrics
                     /\ progress' =
                          IF ok
                          THEN Append(progress, Event("Fetching data...", 1, 1))
                          ELSE progress
                     /\ UNCHANGED <<sched, promise, completedPages>>
                ELSE /\ sched' = WrapperSettles(sched, i, ok, pts)
                     /\ promise' = [promise EXCEPT ![i] =
                                      IF ok THEN "fulfilled" ELSE "rejected"]
                     /\ completedPages' = IF ok THEN completedPages + 1
                                          ELSE completedPages
                     /\ progress' =
                          IF ok
                          THEN Append(progress,
                                 TaskProgress(i, completedPages + 1, pagesNeeded))
                          ELSE progress
                     /\ UNCHANGED <<pc, metrics, error, outcome>>
  /\ UNCHANGED <<drawVars, viewVars, batchVars, rangeVars>>
  /\ UNCHANGED <<inputs, totalCount, pagesNeeded, seqOffset, path, raw, out,
                 countResp>>

\* The backoff timer of page fetch i fires: the fetch calls itself with one
\* retry less, which sends the same request again.
BackoffExpires(i) ==
  /\ fetch[i].st = "backoff"
  /\ fetch' = [fetch EXCEPT ![i].st = "inflight",
                            ![i].retries = @ - 1,
                            ![i].requests = @ + 1]
  /\ UNCHANGED <<drawVars, viewVars, batchVars, rangeVars>>
  /\ UNCHANGED <<inputs, pc, totalCount, pagesNeeded, sched, promise,
                 completedPages, seqOffset, path, metrics, error, raw, out,
                 countResp, progress, outcome>>

\* The scheduler runs on after its await.  A rejected race or all throws out
\* of the batch and of the orchestrator.  A resolved race continues the
\* loop.  A resolved all returns `results`; the orchestrator merges them and
\* sends the look-back query.
SchedulerResume ==
  /\ pc = "batch"
  /\ sched.pc \in {"race", "all"}
  /\ sched.waitOutcome \in {"resolved", "rejected"}
  /\ IF sched.waitOutcome = "rejected"
     THEN /\ sched' = [sched EXCEPT !.pc = "failed"]
          /\ pc' = "failed" /\ error' = "page"
          /\ outcome' = "fetch error"
          /\ UNCHANGED <<fetch, metrics>>
     ELSE IF sched.pc = "race"
     THEN LET s1 == RunLoop(sched, pagesNeeded, maxConcurrent)
          IN /\ sched' = s1
             /\ fetch' = StartTasks(fetch, sched, s1)
             /\ UNCHANGED <<pc, metrics, error, outcome>>
     ELSE /\ sched' = [sched EXCEPT !.pc = "returned"]
          /\ IF MergeThrows(sched.results, pagesNeeded)
             THEN /\ pc' = "failed" /\ error' = "merge"
                  /\ outcome' = "TypeError"
                  /\ UNCHANGED metrics
             ELSE /\ pc' = "backfill"
                  /\ metrics' = MergeResults(sched.results, 0, pagesNeeded)
                  /\ UNCHANGED <<error, outcome>>
          /\ UNCHANGED fetch
  /\ UNCHANGED <<drawVars, viewVars, batchVars, rangeVars>>
  /\ UNCHANGED <<inputs, totalCount, pagesNeeded, promise, completedPages,
                 seqOffset, path, raw, out, countResp, progress>>

\* The sequential strategy's outstanding page request is answered ("bad":
\* anything without data.points, a rate-limit body included).  The points
\* are appended; a full page sends the request for the next offset, a short
\* page sends the look-back query.
SeqResponse(kind) ==
  /\ pc = "seq"
  /\ IF kind = "bad"
     THEN /\ pc' = "failed" /\ error' = "page"
          /\ UNCHANGED <<seqOffset, path, metrics>>
     ELSE LET pts     == Page(seqOffset, QueryLimit)
              hasNext == HasNext(pts, QueryLimit)
          IN /\ metrics' = metrics \o pts
             /\ seqOffset' = seqOffset + QueryLimit
             /\ pc' = IF hasNext THEN "seq" ELSE "backfill"
             /\ path' = "sequential"
             /\ UNCHANGED error
  /\ UNCHANGED <<drawVars, viewVars, batchVars, rangeVars>>
  /\ UNCHANGED <<inputs, totalCount, pagesNeeded, fetch, sched, promise,
                 completedPages, raw, out, countResp, progress, outcome>>

\* The look-back query is answered ("bad": no data.points to index).  The
\* orchestrator appends the back-fill point if there is one, sorts on the
\* parallel path and returns; getAllRawMetrics converts what the parallel
\* orchestrator returned.
BackfillResponse(kind) ==
  /\ pc = "backfill"
  /\ IF kind = "bad"
     THEN /\ pc' = "failed" /\ error' = "backfill"
          /\ outcome' = IF strategy = "parallel" THEN "fetch error" ELSE outcome
          /\ UNCHANGED <<raw, out, progress>>
     ELSE LET last == LastPointOfPreviousPeriod(prevPoints, from)
              ret  == Assemble(path, metrics, last)
              data == ToSamplePoints(ret)
          IN /\ raw' = ret
             /\ pc' = "done"
             /\ UNCHANGED error
             /\ IF strategy = "parallel"
                THEN /\ out' = data
                     /\ outcome' = IF data = <<>> THEN "No data available"
                                   ELSE "data"
                     /\ progress' = IF data = <<>> THEN progress
                                    ELSE Append(progress,
                                                Event("Processing...", 0, 0))
                ELSE UNCHANGED <<out, outcome, progress>>
  /\ UNCHANGED <<drawVars, viewVars, batchVars, rangeVars>>
  /\ UNCHANGED <<inputs, totalCount, pagesNeeded, fetch, sched, promise,
                 completedPages, seqOffset, path, metrics, countResp>>

Next ==
  \/ Start
  \/ \E kind \in {"ok", "nocount", "bad"} : CountResponse(kind)
  \/ \E i \in PageIdx, kind \in {"ok", "nopoints", "rate", "bad"} :
        PageResponse(i, kind)
  \/ \E i \in PageIdx : BackoffExpires(i)
  \/ SchedulerResume
  \/ \E kind \in {"ok", "bad"} : SeqResponse(kind)
  \/ \E kind \in {"ok", "bad"} : BackfillResponse(kind)

Spec == Init /\ [][Next]_vars

(* ------------------------------ properties ---------------------------- *)
\* Page fetches that have been called and have not returned or thrown.
Outstanding == {k \in PageIdx : fetch[k].st \in {"inflight", "backoff"}}

\* All responses a page fetch has received so far were rate-limit responses.
AllRateLimited(f) ==
  /\ f.responses # <<>>
  /\ \A j \in 1..Len(f.responses) : f.responses[j] = "rate"

GotBadResponse(f) == \E j \in 1..Len(f.responses) : f.responses[j] = "bad"

NonDecreasing(times) ==
  \A j \in 1..(Len(times) - 1) : times[j] <= times[j + 1]

StrictlyAscending(times) ==
  \A j \in 1..(Len(times) - 1) : times[j] < times[j + 1]

ParsedTimes(ms) == [j \in 1..Len(ms) |-> DateParse(ms[j].time)]

Occurs(m, s) == \E j \in 1..Len(s) : s[j] = m

\* C1: in every reachable state the in-flight registry of the batch, and the
\* number of tasks started and not yet completed, is at most maxConcurrent.
C1_RegistryWithinMaxConcurrent ==
  /\ Cardinality(sched.executing) <= maxConcurrent
  /\ path = "parallel" => Cardinality(Outstanding) <= maxConcurrent

\* The registry is full while a task waits to be admitted, after an earlier
\* task has completed and been replaced.
C1_Witness ==
  /\ sched.pc = "race"
  /\ Cardinality(sched.executing) = maxConcurrent
  /\ Cardinality(Outstanding) = maxConcurrent
  /\ sched.i < pagesNeeded
  /\ sched.settled # <<>>

\* C2: a filled result slot k holds the result task k produced, never that
\* of another task, and when the batch returns every task that produced a
\* result has it in its own slot, whatever the completion order.
C2_SlotHoldsOwnResult ==
  \A k \in PageIdx :
    /\ sched.results[k].filled =>
         /\ promise[k] = "fulfilled"
         /\ sched.results[k].value = fetch[k].result
    /\ (sched.pc = "returned" /\ promise[k] = "fulfilled") =>
         sched.results[k].filled

\* The batch has returned all its pages although a later task completed
\* before the first one.
C2_Witness ==
  /\ sched.pc = "returned"
  /\ pagesNeeded >= 2
  /\ \A k \in 0..(pagesNeeded - 1) :
       sched.results[k].filled /\ sched.results[k].value # <<>>
  /\ sched.settled[1] # 0

\* C3: the batch is fail-fast: once a task has failed, the batch never
\* returns a results array.
C3_FailFast ==
  (\E k \in PageIdx : promise[k] = "rejected") => sched.pc # "returned"

\* C4: a page fetch that has only ever received rate-limit responses sends
\* at most 4 requests; while fewer than 4 have been answered it goes on
\* retrying, and the 4th answer ends it after exactly 3 retries with an
\* empty page and without raising.
C4_RateLimitedFetchEndsAfterThreeRetries ==
  \A k \in PageIdx :
    AllRateLimited(fetch[k]) =>
      /\ fetch[k].requests <= 4
      /\ Len(fetch[k].responses) < 4 => fetch[k].st \in {"inflight", "backoff"}
      /\ Len(fetch[k].responses) >= 4 =>
           /\ fetch[k].st = "settled"
           /\ fetch[k].requests = 4
           /\ Len(fetch[k].waits) = 3
           /\ ~fetch[k].thrown
           /\ fetch[k].result = <<>>

\* A page fetch has ended after four rate-limit responses.
C4_Witness ==
  \E k \in PageIdx :
    /\ AllRateLimited(fetch[k])
    /\ fetch[k].st = "settled"
    /\ Len(fetch[k].responses) = 4

\* C5: on the parallel path rate limiting alone never makes the fetch fail
\* (a failure comes from a failed request), and a fetch that completes
\* returns every point of every page whose fetch ended with a data response.
C5_RateLimitDegradesOnly ==
  path = "parallel" =>
    /\ pc = "failed" =>
         \/ error = "backfill"
         \/ \E k \in PageIdx : GotBadResponse(fetch[k])
    /\ pc = "done" =>
         \A k \in 0..(pagesNeeded - 1) :
           fetch[k].responses[Len(fetch[k].responses)] = "ok" =>
             \A j \in 1..Len(Page(k * QueryLimit, QueryLimit)) :
               Occurs(Page(k * QueryLimit, QueryLimit)[j], raw)

\* The parallel fetch is done, one page exhausted its retries and another
\* page delivered its points.
C5_Witness ==
  /\ path = "parallel" /\ pc = "done"
  /\ \E k \in PageIdx :
       AllRateLimited(fetch[k]) /\ fetch[k].st = "settled"
  /\ \E k \in PageIdx :
       fetch[k].st = "settled" /\ fetch[k].result # <<>>
  /\ raw # <<>>

\* C6: the sequence the orchestrator returns is non-decreasing in time on
\* every path.
C6_NonDecreasingOnEveryPath ==
  pc = "done" => NonDecreasing(ParsedTimes(raw))

\* C7: the merged sequence of the parallel path is strictly ascending by
\* time; no two of its points share a timestamp.
C7_StrictlyAscending ==
  (pc = "done" /\ path = "parallel") =>
    StrictlyAscending([j \in 1..Len(out) |-> out[j].time])

\* The back-fill point of the returned sequence (its value is that of the
\* look-back point, which no point of the window has).
BackfillTimes ==
  {out[j].time : j \in {m \in 1..Len(out) : out[m].value = prevPoints[1].value}}

\* C8 as stated: the back-fill point's time equals timeRange.from exactly,
\* for every timeRange.from.
C8_BackfillTimeEqualsFrom ==
  (pc = "done" /\ strategy = "parallel" /\ prevPoints # <<>>) =>
    BackfillTimes = {from}

\* C8 as amended: the back-fill point's time is timeRange.from less its
\* milliseconds part, hence timeRange.from itself exactly when that is a
\* whole number of seconds.
C8_BackfillTimeIsFromInWholeSeconds ==
  (pc = "done" /\ strategy = "parallel" /\ prevPoints # <<>>) =>
    /\ BackfillTimes = {from - (from % 1000)}
    /\ (BackfillTimes = {from}) <=> (from % 1000 = 0)

\* A back-fill point has been returned for a window that does not start on
\* a whole second.
C8_Witness ==
  /\ pc = "done" /\ strategy = "parallel" /\ prevPoints # <<>>
  /\ from % 1000 # 0
  /\ BackfillTimes # {}

\* C9: with a total count of 0 the parallel strategy sends no page request,
\* and what it returns is the back-fill point alone if the look-back found
\* one and the empty sequence otherwise.
C9_CountZeroFetchesNoPage ==
  (strategy = "parallel" /\ totalCount = 0) =>
    /\ \A k \in PageIdx : fetch[k].requests = 0
    /\ pc \notin {"init", "count", "failed"} => path = "empty"
    /\ pc = "done" =>
         /\ Len(raw) = Len(prevPoints)
         /\ prevPoints # <<>> => raw[1].value = prevPoints[1].value
         /\ Len(out) = Len(raw)

\* A count of 0 has been answered with the back-fill point alone.
C9_Witness ==
  /\ strategy = "parallel" /\ pc = "done" /\ path = "empty"
  /\ Len(backend) = 0 /\ Len(raw) = 1

\* The offset ranges of the page fetches called so far that contain point p.
PagesCovering(p) ==
  {k \in PageIdx : /\ fetch[k].st # "idle"
                   /\ fetch[k].offset <= p
                   /\ p < fetch[k].offset + fetch[k].limit}

\* C10: for 0 < count <= limit one page fetch (offset 0, limit) is called;
\* for count > limit the batch has ceil(count / limit) tasks, the fetches
\* are called in task order at offset k * limit, none twice and none
\* skipped, and once the batch has returned every index of [0, count) lies
\* in the range of exactly one of them.
C10_PagePlan ==
  /\ path = "single" =>
       /\ totalCount \in 1..QueryLimit
       /\ fetch[0].st # "idle" /\ fetch[0].offset = 0
       /\ fetch[0].limit = QueryLimit
       /\ \A k \in PageIdx \ {0} : fetch[k].st = "idle"
  /\ path = "parallel" =>
       /\ totalCount > QueryLimit
       /\ pagesNeeded * QueryLimit >= totalCount
       /\ (pagesNeeded - 1) * QueryLimit < totalCount
       /\ Len(sched.started) <= pagesNeeded
       /\ \A j \in 1..Len(sched.started) : sched.started[j] = j - 1
       /\ \A k \in PageIdx :
            /\ fetch[k].st # "idle" <=> k < Len(sched.started)
            /\ fetch[k].st # "idle" =>
                 fetch[k].offset = k * QueryLimit /\ fetch[k].limit = QueryLimit
       /\ sched.pc = "returned" =>
            /\ Len(sched.started) = pagesNeeded
            /\ \A p \in 0..(totalCount - 1) : Cardinality(PagesCovering(p)) = 1

\* A batch of three pages, the last one partial, has returned.
C10_Witness ==
  /\ path = "parallel" /\ sched.pc = "returned"
  /\ pagesNeeded >= 3
  /\ totalCount % QueryLimit # 0

\* The elements of a sequence, as a set.
Range(s) == {s[j] : j \in 1..Len(s)}

\* The points a backend holding `backend` and the look-back point owes the
\* caller: every point of the window and, if the look-back finds a point,
\* that point's value at the window start.
OwedPoints ==
  Range(backend) \cup
  {Metric(from \div 1000, prevPoints[j].value) : j \in 1..Len(prevPoints)}

\* Every page fetch of the invocation ended with a data response and the
\* count was the number of points of the window.
CleanParallelRun ==
  /\ totalCount = Len(backend)
  /\ \A k \in PageIdx :
       fetch[k].st # "idle" =>
         /\ fetch[k].st = "settled"
         /\ fetch[k].responses[Len(fetch[k].responses)] = "ok"

\* C11: against the same backend the sequential strategy and the
\* count-prefetch strategy return the same set of points: each returns
\* exactly the points the backend owes, for every number of points,
\* 0, the page limit and its multiples included.
C11_StrategiesReturnSamePointSet ==
  /\ (strategy = "sequential" /\ pc = "done") => Range(raw) = OwedPoints
  /\ (strategy = "parallel" /\ pc = "done" /\ CleanParallelRun) =>
       Range(raw) = OwedPoints

\* The sequential strategy has returned a dataset of exactly two full pages.
C11_Witness ==
  /\ strategy = "sequential" /\ pc = "done"
  /\ Len(backend) = 2 * QueryLimit
  /\ Len(raw) >= Len(backend)

\* The count-prefetch strategy has returned the same kind of dataset.
C11_WitnessParallel ==
  /\ strategy = "parallel" /\ pc = "done" /\ CleanParallelRun
  /\ Len(backend) = 2 * QueryLimit
  /\ Len(raw) >= Len(backend)

\* C12: a count response without data, points or a value for the tag is
\* fatal: the estimator raises, the orchestrator's call fails with that
\* error, and no count of 0 is taken from it.
C12_MalformedCountIsFatal ==
  countResp = "nocount" => (pc = "failed" /\ error = "count")

\* The last response a page fetch has received.
LastResponse(f) == f.responses[Len(f.responses)]

\* Page fetches that ended on a network failure, an unparsable body or a
\* body that is no rate-limit response and carries no data.points.
Unrecovered ==
  {k \in PageIdx : /\ fetch[k].st = "settled"
                   /\ LastResponse(fetch[k]) \in {"bad", "nopoints"}}

\* C13: after a network failure or a malformed page response the invocation
\* does not go on to assemble and return a sequence from the other pages.
C13_MalformedPageAborts ==
  Unrecovered # {} => pc \notin {"backfill", "done"}

\* No count query, page fetch or back-fill query has been issued.
NoRequestIssued ==
  /\ countResp = "none"
  /\ pc \notin {"count", "single", "batch", "seq", "backfill", "done"}
  /\ \A k \in PageIdx : fetch[k].st = "idle" /\ fetch[k].requests = 0

\* C14: when the selector cannot be resolved, nothing is fetched and
\* getDataAndDraw surfaces the error 'No data available'.
C14_IdentityNotFoundIsNoData ==
  (strategy = "parallel" /\ identity # "ok" /\ pc # "init") =>
    (NoRequestIssued /\ outcome = "No data available")

\* The observer calls made for the page fetches, in order.
FetchEvents ==
  SelectSeq(progress, LAMBDA e : e.stage = "Fetching data...")

\* Page fetches of the invocation that have returned to their caller.
CompletedFetches ==
  {k \in PageIdx : fetch[k].st = "settled" /\ ~fetch[k].thrown}

\* C15: an event precedes the count query; in single-page mode (0 of 1)
\* precedes and (1 of 1) follows the page fetch; in parallel mode each page
\* completion is followed by exactly one event whose current is the number
\* of pages completed so far and whose total is the number of pages.
C15_ProgressEvents ==
  /\ (strategy = "parallel" /\ pc = "count") =>
       progress[Len(progress)] = Event("Counting data points...", 0, 0)
  /\ (path = "single" /\ pc = "single") =>
       FetchEvents = <<Event("Fetching data...", 0, 1)>>
  /\ (path = "single" /\ pc \in {"backfill", "done"}) =>
       FetchEvents = <<Event("Fetching data...", 0, 1),
                       Event("Fetching data...", 1, 1)>>
  /\ path = "parallel" =>
       /\ Len(FetchEvents) = 1 + Cardinality(CompletedFetches)
       /\ \A j \in 2..Len(FetchEvents) :
            /\ FetchEvents[j].current = j - 1
            /\ FetchEvents[j].current <= FetchEvents[j].total
            /\ FetchEvents[j].total = pagesNeeded

\* A batch of three pages has finished, a later page completing before
\* an earlier one, and every completion was reported.
C15_Witness ==
  /\ path = "parallel"
  /\ pc = "done"
  /\ pagesNeeded = 3
  /\ Len(FetchEvents) = 4
  /\ sched.settled[1] # 0

(* ====================== the statistics stage ========================== *)
(* getDataAndDraw from the return of getAllRawMetrics on (chart.service.ts) *)
(* and generateNormalDistributionData (statistics.ts).  Arithmetic is      *)
(* exact: a point is represented by its value, the mean by the quotient    *)
(* sum / n, the variance by varNum / n^3 with                              *)
(* varNum = sum over the points of (n * value - sum)^2, and the standard   *)
(* deviation by the sign of the variance.  The sampling loop of            *)
(* generateNormalDistributionData is one action per iteration.             *)

(* ------------------------------ bounds -------------------------------- *)
\* Largest number of points getAllRawMetrics returns, and largest
\* dataLength and maxY of a direct call.
MaxData == 3
\* Point values and the mean of a direct call range over 0..MaxValue (the
\* mean of a direct call may also be MaxSafeInteger).
MaxValue == 2
\* standardDeviation of a direct call ranges over 0..MaxSd.
MaxSd == 2
\* binSize of a direct call ranges over 0..MaxBin.
MaxBin == 2

\* zScore of a direct call of getConfidenceInterval ranges over -1..MaxZ.
MaxZ == 2

\* Bits of the significand of a number (53 in a double): the integers up to
\* 2^MantissaBits are numbers, above it only every second one is, and so on.
MantissaBits == 6

\* Number.MAX_SAFE_INTEGER, 2^MantissaBits - 1.
MaxSafeInteger == 2 ^ MantissaBits - 1

\* The distance between neighbouring numbers at the magnitude of v: the
\* smallest power of two s, from `s` on, with |v| < s * 2^MantissaBits.
RECURSIVE Spacing(_, _)
Spacing(v, s) ==
  IF (IF v < 0 THEN -v ELSE v) < s * 2 ^ MantissaBits THEN s
  ELSE Spacing(v, 2 * s)

\* The result of an arithmetic operation whose exact value is v: the
\* nearest number, of two equally near ones the one with the even
\* significand.
ToDouble(v) ==
  LET s == Spacing(v, 1)
      q == v \div s
      r == v % s
  IN IF 2 * r < s THEN q * s
     ELSE IF 2 * r > s THEN (q + 1) * s
     ELSE IF q % 2 = 0 THEN q * s ELSE (q + 1) * s

\* More samples than any call with binSize >= 1 collects; the arrays of a
\* loop that goes on beyond it are followed up to this length only.
SampleCap == 10 * MaxSd + 2

RECURSIVE SeqsUpTo(_, _)
\* The sequences over S of length at most n.
SeqsUpTo(S, n) ==
  IF n = 0 THEN {<<>>}
  ELSE LET shorter == SeqsUpTo(S, n - 1)
       IN shorter \cup {Append(q, v) : q \in shorter, v \in S}

(* ------------------------ calculateStatistics ------------------------- *)
RECURSIVE Sum(_)
Sum(s) == IF s = <<>> THEN 0 ELSE Head(s) + Sum(Tail(s))

\* Dividing the squared deviations by n - 1.
SampleDivisor(n) == n - 1

\* The divisor of the sum of squared deviations: ... / n
VarianceDivisor(n) == n

\* n, the sum of the values, and the variance as the quotient
\* varNum / varDen: a deviation value - mean is (n * value - sum) / n, so
\* the squared deviations add up to varNum / n^2.
CalculateStatistics(d) ==
  LET n == Len(d)
      total == Sum(d)
  IN [n |-> n, sum |-> total,
      varNum |-> Sum([j \in 1..n |-> (n * d[j] - total) * (n * d[j] - total)]),
      varDen |-> n * n * VarianceDivisor(n)]

\* mean = sum / n as a quotient; 0 / 0 (no points) is NaN.
MeanOf(st) == [num |-> st.sum, den |-> st.n]

\* Is Math.sqrt(variance) a positive number?  (0 for equal values, NaN for
\* no points.)
SdPositive(st) == st.n > 0 /\ st.varNum > 0

(* ----------------------------- histogram ------------------------------ *)
\* data.filter((d) => d.value !== 0) if ignoreZero
Filtered(d, ignore) ==
  IF ignore THEN SelectSeq(d, LAMBDA v : v # 0) ELSE d

RECURSIVE InsertByValue(_, _)
InsertByValue(sorted, v) ==
  IF sorted = <<>> THEN <<v>>
  ELSE IF Head(sorted) - v <= 0
       THEN <<Head(sorted)>> \o InsertByValue(Tail(sorted), v)
       ELSE <<v>> \o sorted

RECURSIVE SortByValue(_)
\* data.sort((a, b) => a.value - b.value)
SortByValue(s) ==
  IF s = <<>> THEN <<>>
  ELSE InsertByValue(SortByValue(SubSeq(s, 1, Len(s) - 1)), s[Len(s)])

\* Setting the count of a value to 1 whatever it was.
CountValueOnce(counts, v) ==
  IF \E j \in 1..Len(counts) : counts[j].value = v
  THEN [j \in 1..Len(counts) |->
          IF counts[j].value = v THEN [value |-> v, count |-> 1]
          ELSE counts[j]]
  ELSE Append(counts, [value |-> v, count |-> 1])

\* valueCounts.set(value, (valueCounts.get(value) || 0) + 1) on a Map kept
\* as the sequence of its entries in insertion order.
CountValue(counts, v) ==
  IF \E j \in 1..Len(counts) : counts[j].value = v
  THEN [j \in 1..Len(counts) |->
          IF counts[j].value = v
          THEN [value |-> v, count |-> counts[j].count + 1]
          ELSE counts[j]]
  ELSE Append(counts, [value |-> v, count |-> 1])

RECURSIVE ValueCounts(_)
\* data.forEach(point => ...) over the sorted data.
ValueCounts(d) ==
  IF d = <<>> THEN <<>>
  ELSE CountValue(ValueCounts(SubSeq(d, 1, Len(d) - 1)), d[Len(d)])

RECURSIVE InsertBucket(_, _)
InsertBucket(sorted, b) ==
  IF sorted = <<>> THEN <<b>>
  ELSE IF Head(sorted).value - b.value <= 0
       THEN <<Head(sorted)>> \o InsertBucket(Tail(sorted), b)
       ELSE <<b>> \o sorted

RECURSIVE SortBuckets(_)
\* histogramData.sort((a, b) => a.value[0] - b.value[0])
SortBuckets(h) ==
  IF h = <<>> THEN <<>>
  ELSE InsertBucket(SortBuckets(SubSeq(h, 1, Len(h) - 1)), h[Len(h)])

\* histogramData of getDataAndDraw for the filtered data.
Histogram(d) == SortBuckets(ValueCounts(SortByValue(d)))

RECURSIVE MaxCount(_)
\* Math.max(...histogramData.map((data) => data.value[1])); the maximum of
\* no counts (-Infinity) is never read, dataLength being 0 then.
MaxCount(h) ==
  IF h = <<>> THEN 0
  ELSE LET rest == MaxCount(Tail(h))
       IN IF Head(h).count > rest THEN Head(h).count ELSE rest

\* The arguments getDataAndDraw calls generateNormalDistributionData with.
\* The abscissa of the curve is measured from the mean in units of half a
\* standard deviation, so a positive deviation is 2 and binSize = sd / 2 is
\* 1; a zero deviation gives binSize 0.  (Without points the deviation is
\* NaN, which is never read because dataLength is 0.)
DrawArgs(st, h) ==
  [mean |-> 0,
   standardDeviation |-> IF SdPositive(st) THEN 2 ELSE 0,
   dataLength |-> st.n,
   binSize |-> IF SdPositive(st) THEN 1 ELSE 0,
   maxY |-> MaxCount(h)]

(* ----------------- generateNormalDistributionData --------------------- *)
\* 10^6 * Math.exp(-0.5 * z^2) for z = 0, 1/2, 1, ..., 5.
ExpTable ==
  <<1000000, 882497, 606531, 324652, 135335, 43937, 11109, 2187, 335, 40, 4>>

Abs(i) == IF i < 0 THEN -i ELSE i

\* normalDistribution(x, mean, standardDeviation) in units of
\* 1 / (standardDeviation * sqrt(2 pi) * 10^6), z = (x - mean) / sd being
\* cut to a multiple of 1/2.  With a zero deviation the factor 1 / 0 is
\* Infinity and the exponential is NaN (z = 0 / 0) or 0: the product is NaN.
NormalDistribution(x, mean, sd) ==
  IF sd = 0 THEN [nan |-> TRUE, v |-> 0]
  ELSE [nan |-> FALSE, v |-> ExpTable[(2 * Abs(x - mean)) \div sd + 1]]

\* y = normalDistribution(x, mean, standardDeviation) * dataLength * binSize
SampleY(x, a) ==
  LET p == NormalDistribution(x, a.mean, a.standardDeviation)
  IN IF p.nan THEN p
     ELSE [nan |-> FALSE, v |-> p.v * a.dataLength * a.binSize]

\* Keeping the last y as the peak.
LastYDistrib(m, y) == IF y.nan THEN m ELSE y.v

\* if (y > maxYDistrib) maxYDistrib = y; a comparison with NaN is false.
NextMaxYDistrib(m, y) == IF ~y.nan /\ y.v > m THEN y.v ELSE m

\* Returning early for an empty dataset only.
ReturnsAtGuardIfEmpty(dataLength) == dataLength < 1

\* if (dataLength <= 1) return []
ReturnsAtGuard(dataLength) == dataLength <= 1

\* The loop condition x <= mean + 5 * standardDeviation.
InRange(x, a) == x <= ToDouble(a.mean + ToDouble(5 * a.standardDeviation))

\* generateNormalDistributionData up to the first test of the loop condition.
Enter(a) ==
  IF ReturnsAtGuard(a.dataLength)
  THEN [IdleGen EXCEPT !.pc = "returned"]
  ELSE [IdleGen EXCEPT !.pc = "loop",
          !.x = ToDouble(a.mean - ToDouble(5 * a.standardDeviation))]

\* y * scaleRatio with scaleRatio = maxY / maxYDistrib, as the quotient
\* num / den.  A zero peak makes the ratio Infinity (NaN for maxY = 0), and
\* NaN * r, 0 * Infinity are NaN.
Scaled(y, maxY, peak) ==
  CASE y.nan -> [kind |-> "NaN", num |-> 0, den |-> 0]
    [] ~y.nan /\ peak = 0 /\ (maxY = 0 \/ y.v = 0) ->
         [kind |-> "NaN", num |-> 0, den |-> 0]
    [] ~y.nan /\ peak = 0 /\ maxY # 0 /\ y.v # 0 ->
         [kind |-> "Infinity", num |-> 0, den |-> 0]
    [] OTHER -> [kind |-> "number", num |-> y.v * maxY, den |-> peak]

\* xValues.map((x, i) => [x, scaledYValues[i]])
Curve(g, maxY) ==
  [j \in 1..Len(g.xValues) |->
     [x |-> g.xValues[j], y |-> Scaled(g.yValues[j], maxY, g.maxYDistrib)]]

(* ------------- getZScoreForConfidence, getConfidenceInterval ---------- *)
\* Confidence levels are held in hundredths of a percent, probabilities in
\* units of 1 / 20000 and z-scores in millionths.
Confidences == {5000, 6827, 9000, 9500, 9900}

\* jStat.normal.inv(p, 0, 1): the quantile of the standard normal
\* distribution, at the probabilities the calls of the model reach.
InverseStandardNormalCDF(p) ==
  CASE p = 100   -> -2575829
    [] p = 200   -> -2326348
    [] p = 500   -> -1959964
    [] p = 1000  -> -1644854
    [] p = 2000  -> -1281552
    [] p = 3173  -> -1000022
    [] p = 5000  -> -674490
    [] p = 6346  -> -475262
    [] p = 10000 -> 0

\* alpha = 1 - confidence / 100
Alpha(confidence) == 20000 - 2 * confidence

\* Taking the whole of alpha as the tail.
OneTail(alpha) == alpha

\* tailProbability = alpha / 2
TailProbability(alpha) == alpha \div 2

GetZScoreForConfidence(confidence) ==
  -InverseStandardNormalCDF(TailProbability(Alpha(confidence)))

\* An interval that starts at the mean.
IntervalFromMean(mean, sd, zScore) == <<mean, mean + 2 * zScore * sd>>

GetConfidenceInterval(mean, sd, zScore) ==
  <<mean - zScore * sd, mean + zScore * sd>>

(* ------------------------------ actions ------------------------------- *)
\* getDataAndDraw resumes with the data of getAllRawMetrics and runs up to
\* its call of generateNormalDistributionData, the entry of that call
\* included.
GetDataAndDraw ==
  /\ caller = "getDataAndDraw"
  /\ dpc = "called"
  /\ IF dataset = <<>>
     THEN /\ drawn' = [NoDrawn EXCEPT !.kind = "error",
                                      !.message = "No data available"]
          /\ dpc' = "thrown"
          /\ UNCHANGED <<stats, histogramData, args, gen>>
     ELSE LET d  == Filtered(dataset, ignoreZero)
              st == CalculateStatistics(d)
              h  == Histogram(d)
              a  == DrawArgs(st, h)
          IN /\ stats' = st
             /\ histogramData' = h
             /\ args' = a
             /\ gen' = Enter(a)
             /\ dpc' = "generating"
             /\ UNCHANGED drawn
  /\ UNCHANGED <<fetchVars, viewVars, batchVars, rangeVars,
                 calc, caller, dataset, ignoreZero>>

\* A call of generateNormalDistributionData with arguments of its own.
CallGenerate ==
  /\ caller = "direct"
  /\ dpc = "called"
  /\ gen' = Enter(args)
  /\ dpc' = "generating"
  /\ UNCHANGED <<fetchVars, viewVars, batchVars, rangeVars,
                 calc, caller, dataset, ignoreZero, stats,
                 histogramData, args, drawn>>

\* One iteration of the sampling loop.  Beyond SampleCap samples the arrays
\* are no longer extended: of the samples pushed after that only their
\* number modulo 2 is kept (gen.more).
LoopIteration ==
  /\ gen.pc = "loop"
  /\ InRange(gen.x, args)
  /\ LET y    == SampleY(gen.x, args)
         full == Len(gen.xValues) >= SampleCap
     IN gen' = [gen EXCEPT
                  !.entered = TRUE,
                  !.xValues = IF full THEN @ ELSE Append(@, gen.x),
                  !.yValues = IF full THEN @ ELSE Append(@, y),
                  !.more = IF full THEN (@ + 1) % 2 ELSE @,
                  !.maxYDistrib = NextMaxYDistrib(@, y),
                  !.x = ToDouble(@ + args.binSize)]
  /\ UNCHANGED <<fetchVars, viewVars, batchVars, rangeVars,
                 calc, caller, dataset, ignoreZero, dpc, stats,
                 histogramData, args, drawn>>

\* The loop condition fails: the samples are scaled and returned.
LoopExit ==
  /\ gen.pc = "loop"
  /\ ~InRange(gen.x, args)
  /\ gen' = [gen EXCEPT !.pc = "returned", !.ret = Curve(gen, args.maxY)]
  /\ UNCHANGED <<fetchVars, viewVars, batchVars, rangeVars,
                 calc, caller, dataset, ignoreZero, dpc, stats,
                 histogramData, args, drawn>>

\* generateNormalDistributionData has returned to getDataAndDraw.
DrawReturn ==
  /\ caller = "getDataAndDraw"
  /\ dpc = "generating"
  /\ gen.pc = "returned"
  /\ IF gen.ret = <<>>
     THEN /\ drawn' = [kind |-> "error",
                       message |-> "Not enough data available, mean = ",
                       mean |-> MeanOf(stats)]
          /\ dpc' = "thrown"
     ELSE /\ drawn' = [NoDrawn EXCEPT !.kind = "chart"]
          /\ dpc' = "returned"
  /\ UNCHANGED <<fetchVars, viewVars, batchVars, rangeVars,
                 calc, caller, dataset, ignoreZero, stats,
                 histogramData, args, gen>>

\* The fetch has returned; what it returned is `dataset`.
FetchAtRest ==
  /\ strategy = "parallel"
  /\ from = 1000
  /\ backend = <<>>
  /\ prevPoints = <<>>
  /\ maxConcurrent = 1
  /\ identity = "ok"
  /\ pc = "done"
  /\ totalCount = 0
  /\ pagesNeeded = 0
  /\ fetch = [k \in PageIdx |-> IdleFetch]
  /\ sched = IdleSched
  /\ promise = [k \in PageIdx |-> "none"]
  /\ completedPages = 0
  /\ seqOffset = 0
  /\ path = "none"
  /\ metrics = <<>>
  /\ error = "none"
  /\ raw = <<>>
  /\ out = <<>>
  /\ countResp = "none"
  /\ progress = <<>>
  /\ outcome = "none"

DrawInit ==
  /\ FetchAtRest
  /\ ViewAtRest
  /\ BatchAtRest
  /\ RangeAtRest
  /\ caller \in {"getDataAndDraw", "direct", "getConfidenceInterval",
                 "getZScoreForConfidence"}
  /\ IF caller = "getDataAndDraw"
     THEN /\ dataset \in SeqsUpTo(0..MaxValue, MaxData)
          /\ ignoreZero \in BOOLEAN
     ELSE /\ dataset = <<>>
          /\ ignoreZero = FALSE
  /\ IF caller = "direct"
     THEN args \in [mean : (0..MaxValue) \cup {MaxSafeInteger},
                    standardDeviation : 0..MaxSd,
                    dataLength : 0..MaxData, binSize : 0..MaxBin,
                    maxY : 0..MaxData]
     ELSE args = NoArgs
  /\ CASE caller = "getConfidenceInterval" ->
            \E m \in (-MaxValue)..MaxValue, sd \in (-1)..MaxSd,
               z \in (-1)..MaxZ :
              calc = [NoCalc EXCEPT !.mean = m, !.standardDeviation = sd,
                                    !.zScore = z]
       [] caller = "getZScoreForConfidence" ->
            \E c \in Confidences : calc = [NoCalc EXCEPT !.confidence = c]
       [] OTHER -> calc = NoCalc
  /\ dpc = "called"
  /\ stats = NoStats
  /\ histogramData = <<>>
  /\ gen = IdleGen
  /\ drawn = NoDrawn

\* A call of getConfidenceInterval with arguments of its own.
CallGetConfidenceInterval ==
  /\ caller = "getConfidenceInterval"
  /\ ~calc.returned
  /\ calc' = [calc EXCEPT
                !.returned = TRUE,
                !.ret = GetConfidenceInterval(calc.mean, calc.standardDeviation,
                                              calc.zScore)]
  /\ UNCHANGED <<fetchVars, viewVars, batchVars, rangeVars,
                 caller, dataset, ignoreZero, dpc, stats,
                 histogramData, args, gen, drawn>>

\* A call of getZScoreForConfidence.
CallGetZScoreForConfidence ==
  /\ caller = "getZScoreForConfidence"
  /\ ~calc.returned
  /\ calc' = [calc EXCEPT
                !.returned = TRUE,
                !.ret = <<GetZScoreForConfidence(calc.confidence)>>]
  /\ UNCHANGED <<fetchVars, viewVars, batchVars, rangeVars,
                 caller, dataset, ignoreZero, dpc, stats,
                 histogramData, args, gen, drawn>>

DrawNext ==
  \/ GetDataAndDraw
  \/ CallGenerate
  \/ LoopIteration
  \/ LoopExit
  \/ DrawReturn
  \/ CallGetConfidenceInterval
  \/ CallGetZScoreForConfidence

DrawSpec == DrawInit /\ [][DrawNext]_vars

\* The statements from the call of generateNormalDistributionData to the
\* end of getDataAndDraw are synchronous: nothing is awaited, so the loop
\* goes on while its condition holds and each return is followed by the
\* caller's next statement.
FairDrawSpec ==
  /\ DrawSpec
  /\ WF_vars(LoopIteration)
  /\ WF_vars(LoopExit)
  /\ WF_vars(DrawReturn)

(* ----------------- properties of the statistics stage ----------------- *)
\* The input of the histogram: the data after the ignoreZero filter.
HistogramInput == Filtered(dataset, ignoreZero)

\* getDataAndDraw has built its histogram.
HistogramBuilt ==
  /\ caller = "getDataAndDraw"
  /\ dpc \in {"generating", "thrown", "returned"}
  /\ dataset # <<>>

\* C16: each bucket's count is the number of filtered points with exactly
\* the bucket's value, bucket values are distinct and ascending, and the
\* counts sum to the length of the filtered input.
C16_HistogramCounts ==
  HistogramBuilt =>
    /\ \A j \in 1..Len(histogramData) :
         histogramData[j].count =
           Cardinality({i \in 1..Len(HistogramInput) :
                          HistogramInput[i] = histogramData[j].value})
    /\ \A j \in 1..(Len(histogramData) - 1) :
         histogramData[j].value < histogramData[j + 1].value
    /\ Sum([j \in 1..Len(histogramData) |-> histogramData[j].count])
         = Len(HistogramInput)

\* An unsorted input with a repeated value gave two buckets.
C16_Witness ==
  /\ HistogramBuilt
  /\ Len(histogramData) = 2
  /\ \E j \in 1..2 : histogramData[j].count >= 2
  /\ dataset # SortByValue(dataset)

\* C17: a call with dataLength <= 1 returns the empty sequence without
\* entering the sampling loop, whatever the other arguments are.
C17_EmptyWithoutLoop ==
  (gen.pc # "idle" /\ args.dataLength <= 1) =>
    /\ gen.pc = "returned"
    /\ gen.ret = <<>>
    /\ ~gen.entered
    /\ gen.xValues = <<>>

\* A call with one data point and otherwise usable arguments has returned.
C17_Witness ==
  /\ caller = "direct"
  /\ gen.pc = "returned"
  /\ args.dataLength = 1
  /\ args.standardDeviation > 0
  /\ args.binSize > 0
  /\ args.maxY > 0

\* C18: a call with n > 1 whose standard deviation is 0, or whose unscaled
\* peak is 0, returns the empty sequence.
C18_EmptyWhenScalingUndefined ==
  (/\ gen.pc = "returned"
   /\ args.dataLength > 1
   /\ (args.standardDeviation = 0 \/ gen.maxYDistrib = 0)) =>
    gen.ret = <<>>

\* getDataAndDraw has computed degenerate statistics for a non-empty
\* dataset: one point, or points of one value.
Degenerate ==
  /\ caller = "getDataAndDraw"
  /\ dpc = "generating"
  /\ stats.n >= 1
  /\ ~SdPositive(stats)

NotEnoughData ==
  /\ dpc = "thrown"
  /\ drawn.kind = "error"
  /\ drawn.message = "Not enough data available, mean = "
  /\ drawn.mean = MeanOf(stats)

\* C19: with degenerate statistics getDataAndDraw terminates, raising
\* 'Not enough data available, mean = <mean>'.
C19_DegenerateEndsNotEnoughData == Degenerate ~> NotEnoughData

\* The y-value equals maxY.
IsMaxY(y, maxY) == y.kind = "number" /\ y.num = maxY * y.den

\* The y-value is a number not above maxY.
AtMostMaxY(y, maxY) == y.kind = "number" /\ y.num <= maxY * y.den

\* C20: for n > 1 and sd > 0 the largest y of the returned curve equals
\* maxHistogramY and no y exceeds it.
C20_PeakIsMaxHistogramY ==
  (gen.pc = "returned" /\ args.dataLength > 1 /\ args.standardDeviation > 0) =>
    /\ \E j \in 1..Len(gen.ret) : IsMaxY(gen.ret[j].y, args.maxY)
    /\ \A j \in 1..Len(gen.ret) : AtMostMaxY(gen.ret[j].y, args.maxY)

\* A curve of several samples below a peak of at least 2 has been returned.
C20_Witness ==
  /\ gen.pc = "returned"
  /\ args.dataLength > 1
  /\ args.standardDeviation > 0
  /\ args.maxY >= 2
  /\ Len(gen.ret) >= 3
  /\ \E j \in 1..Len(gen.ret) : ~IsMaxY(gen.ret[j].y, args.maxY)

\* The number of points of d with value v.
Occurrences(d, v) == Cardinality({i \in 1..Len(d) : d[i] = v})

RECURSIVE PowerSum(_, _, _)
\* The sum of value^k (k = 1 or 2) over the points of d whose value is at
\* most top, taken value by value.
PowerSum(d, k, top) ==
  IF top < 0 THEN 0
  ELSE (IF k = 1 THEN top ELSE top * top) * Occurrences(d, top)
       + PowerSum(d, k, top - 1)

\* st is the mean and the population variance of d: mean = S1 / n and
\* variance = S2 / n - (S1 / n)^2, S1 and S2 being the sums of the values
\* and of their squares.
IsMeanAndPopulationVariance(st, d, top) ==
  LET n  == Len(d)
      s1 == PowerSum(d, 1, top)
      s2 == PowerSum(d, 2, top)
  IN /\ MeanOf(st).num * n = s1 * MeanOf(st).den
     /\ MeanOf(st).den # 0
     /\ st.varDen # 0
     /\ st.varNum * n * n = (n * s2 - s1 * s1) * st.varDen

\* C21: for every non-empty input the mean is the sum of the values over n
\* and the variance is the population variance (divisor n); the values
\* [1,2,3,4,5] give mean 3 and variance 2.
C21_MeanAndPopulationVariance ==
  /\ (caller = "getDataAndDraw" /\ dpc = "generating" /\ stats.n >= 1) =>
       IsMeanAndPopulationVariance(stats, HistogramInput, MaxValue)
  /\ LET st == CalculateStatistics(<<1, 2, 3, 4, 5>>)
     IN /\ MeanOf(st).num = 3 * MeanOf(st).den
        /\ st.varNum = 2 * st.varDen
        /\ st.varDen > 0

\* Statistics of three points that are not all equal have been computed.
C21_Witness ==
  /\ caller = "getDataAndDraw"
  /\ dpc = "generating"
  /\ stats.n = 3
  /\ stats.varNum > 0
  /\ stats.sum > 0

\* C22: the interval is [mean - zScore * sd, mean + zScore * sd]: its bounds
\* are symmetric about the mean, 2 * zScore * sd apart, and enclose the
\* mean whenever zScore >= 0 and sd >= 0.
C22_IntervalSymmetricAboutMean ==
  (caller = "getConfidenceInterval" /\ calc.returned) =>
    LET lower == calc.ret[1]
        upper == calc.ret[2]
    IN /\ Len(calc.ret) = 2
       /\ lower = calc.mean - calc.zScore * calc.standardDeviation
       /\ upper = calc.mean + calc.zScore * calc.standardDeviation
       /\ lower + upper = 2 * calc.mean
       /\ upper - lower = 2 * calc.zScore * calc.standardDeviation
       /\ (calc.zScore >= 0 /\ calc.standardDeviation >= 0) =>
            (lower <= calc.mean /\ calc.mean <= upper)

\* An interval of positive width around a non-zero mean has been returned.
C22_Witness ==
  /\ caller = "getConfidenceInterval"
  /\ calc.returned
  /\ calc.mean # 0
  /\ calc.zScore > 0
  /\ calc.standardDeviation > 0
  /\ calc.ret[1] < calc.mean

Distance(a, b) == IF a < b THEN b - a ELSE a - b

\* C23: the z-score of a confidence level c is minus the standard normal
\* quantile at (1 - c/100) / 2; it is 1.959964 within 1e-4 for c = 95 and
\* 1.0 within 1e-3 for c = 68.27.
C23_ZScoreOfConfidence ==
  (caller = "getZScoreForConfidence" /\ calc.returned) =>
    /\ calc.ret = <<-InverseStandardNormalCDF(10000 - calc.confidence)>>
    /\ calc.confidence = 9500 => Distance(calc.ret[1], 1959964) <= 100
    /\ calc.confidence = 6827 => Distance(calc.ret[1], 1000000) <= 1000

\* The z-score of the 95 % level has been returned.
C23_Witness ==
  /\ caller = "getZScoreForConfidence"
  /\ calc.returned
  /\ calc.confidence = 9500
  /\ calc.ret[1] > 0

\* The z-score of the 68.27 % level has been returned.
C23_WitnessOneSigma ==
  /\ caller = "getZScoreForConfidence"
  /\ calc.returned
  /\ calc.confidence = 6827
  /\ calc.ret[1] > 0

\* Is the value of a point a finite number?
IsFiniteValue(v) == v \notin NonFiniteValues

\* C24: the sequence getAllRawMetrics returns holds exactly the wire points
\* whose value is a finite number, each once, and no other value.
C24_NonFiniteDropped ==
  (strategy = "parallel" /\ pc = "done") =>
    /\ \A j \in 1..Len(out) : IsFiniteValue(out[j].value)
    /\ Len(out) =
         Cardinality({k \in 1..Len(raw) : IsFiniteValue(raw[k].value)})

\* Tasks of the batch that have been started and have not completed.
OutstandingTasks(s) == Len(s.started) - Len(s.settled)

\* C25: tasks are started in submission order, each once; a task is started
\* only while fewer than maxConcurrent tasks are outstanding, so with
\* maxConcurrent outstanding the next start waits for a completion.
C25_StartsInSubmissionOrder ==
  [][/\ \A j \in 1..Len(sched'.started) : sched'.started[j] = j - 1
     /\ Len(sched'.started) >= Len(sched.started)
     /\ Len(sched'.started) > Len(sched.started) =>
          OutstandingTasks(sched) < maxConcurrent
     /\ OutstandingTasks(sched') <= maxConcurrent]_vars

\* Three tasks ran two at a time; the second one completed first and the
\* third was started after it.
C25_Witness ==
  /\ path = "parallel"
  /\ maxConcurrent = 2
  /\ sched.started = <<0, 1, 2>>
  /\ Len(sched.settled) = 3
  /\ sched.settled[1] = 1

(* ========================= the component ============================== *)
(* updateChart of normal-distribution.svelte, called on mount, on a time   *)
(* range change and on a resize.  The calls share the component's          *)
(* variables and one ChartService with one chart.  Update k shows its      *)
(* outcome as the number k: standardDeviation k, chart option k, error     *)
(* message k.                                                              *)

\* updateChart is called for the k-th time and runs up to the await inside
\* getDataAndDraw: loading is set and the error cleared.
UpdateChart(k, trigger) ==
  /\ upd[k].st = "idle"
  /\ IF k = 1 THEN TRUE ELSE upd[k - 1].st # "idle"
  /\ view' = [view EXCEPT !.loading = TRUE, !.error = 0]
  /\ upd' = [upd EXCEPT ![k] = [IdleUpdate EXCEPT !.st = "fetching",
                                                  !.trigger = trigger]]
  /\ UNCHANGED <<fetchVars, drawVars, batchVars, rangeVars>>

\* The fetch of update k returns.  getDataAndDraw runs to its end: with data
\* it sets the option of the chart and resolves with the standard
\* deviation, otherwise it rejects.  updateChart then resumes after its
\* await, before any other update's fetch returns: it stores the returned
\* standardDeviation, or the message of the error it caught, and ends
\* loading.
GetDataAndDrawSettles(k, result) ==
  /\ upd[k].st = "fetching"
  /\ upd' = [upd EXCEPT ![k].st = "done", ![k].result = result]
  /\ view' = IF result = "data"
             THEN [view EXCEPT !.chart = k, !.standardDeviation = k,
                               !.loading = FALSE]
             ELSE [view EXCEPT !.error = k, !.loading = FALSE]
  /\ UNCHANGED <<fetchVars, drawVars, batchVars, rangeVars>>

ViewInit ==
  /\ FetchAtRest
  /\ DrawAtRest
  /\ ViewAtRest
  /\ BatchAtRest
  /\ RangeAtRest

ViewNext ==
  \/ \E k \in 1..MaxUpdates :
       \E trigger \in IF k = 1 THEN {"mount"} ELSE {"timerange", "resize"} :
         UpdateChart(k, trigger)
  \/ \E k \in 1..MaxUpdates, result \in {"data", "error"} :
       GetDataAndDrawSettles(k, result)

ViewSpec == ViewInit /\ [][ViewNext]_vars

\* The updates that have been started.
Started == {k \in 1..MaxUpdates : upd[k].st # "idle"}

\* The most recently started update.
Latest == CHOOSE k \in Started : \A j \in Started : j <= k

\* C26: once an update that started while an earlier one was fetching and
\* the earlier one have both finished, the chart, the standard deviation
\* and the error shown are those of the most recently started update.
C26_StaleOutcomeDiscarded ==
  (/\ Cardinality(Started) >= 2
   /\ \A k \in Started : upd[k].st = "done") =>
    IF upd[Latest].result = "data"
    THEN view.chart = Latest /\ view.standardDeviation = Latest /\ view.error = 0
    ELSE view.error = Latest

RetriesRemainingAt(j) == DefaultRetries - (j - 1)

\* C28 as stated: the wait before a retry is (3 - retriesRemaining) seconds.
C28_WaitIsThreeMinusRetries ==
  \A k \in PageIdx :
    \A j \in 1..Len(fetch[k].waits) :
      fetch[k].waits[j] = (3 - RetriesRemainingAt(j)) * 1000

\* C28: the wait before a retry is (4 - retriesRemaining) seconds,
\* retriesRemaining being the value before it is decremented.
C28_WaitIsFourMinusRetries ==
  \A k \in PageIdx :
    /\ \A j \in 1..Len(fetch[k].waits) :
         fetch[k].waits[j] = (4 - RetriesRemainingAt(j)) * 1000
    /\ fetch[k].st = "backoff" =>
         /\ fetch[k].retries = RetriesRemainingAt(Len(fetch[k].waits))
         /\ fetch[k].retries > 0
         /\ fetch[k].waits[Len(fetch[k].waits)] = (4 - fetch[k].retries) * 1000

\* A page fetch is waiting before its second retry.
C28_Witness ==
  \E k \in PageIdx : fetch[k].st = "backoff" /\ Len(fetch[k].waits) = 2

\* A request of some page fetch is sent in this step.
PageRequestSent ==
  \E k \in PageIdx : fetch'[k].requests > fetch[k].requests

\* In every state of the count-prefetch strategy: before the count response
\* no page fetch has been called, and from the look-back query on every page
\* fetch that was called has completed.
C29_StateOrder ==
  strategy = "parallel" =>
    /\ countResp = "none" => \A k \in PageIdx : fetch[k].requests = 0
    /\ pc \in {"backfill", "done"} =>
         /\ countResp # "none"
         /\ Outstanding = {}
         /\ path \in {"empty", "single", "parallel"}
    /\ pc = "done" =>
         /\ Len(raw) <= Len(metrics) + 1
         /\ Len(raw) >= Len(metrics)

\* In every step of the count-prefetch strategy: a page request is sent only
\* after the count response and never once the look-back query is out; the
\* look-back query is sent once, from the count or the page fetches; the
\* sequence is returned by the step that receives the look-back response.
C29_StepOrder ==
  strategy = "parallel" =>
    /\ PageRequestSent => (countResp' # "none" /\ pc \notin {"backfill", "done"})
    /\ (pc' = "backfill" /\ pc # "backfill") => pc \in {"count", "single", "batch"}
    /\ pc = "backfill" => pc' \in {"backfill", "done", "failed"}
    /\ (pc' = "done" /\ pc # "done") => pc = "backfill"
    /\ pc \in {"done", "failed"} => pc' = pc
    /\ raw' # raw => (pc = "backfill" /\ pc' = "done")

\* C29: Count -> Empty | SingleFetch | ParallelFetch -> Backfill -> Done: no
\* page request before the count response; the back-fill query is issued
\* once, after every page fetch has completed, and adds at most one point;
\* the sequence is returned only after the back-fill response.
C29_OrchestratorStepOrder == []C29_StateOrder /\ [][C29_StepOrder]_vars

\* A batch of several pages with a retry has been followed by a look-back
\* that added its point.
C29_Witness ==
  /\ strategy = "parallel"
  /\ pc = "done"
  /\ path = "parallel"
  /\ pagesNeeded >= 2
  /\ Len(raw) = Len(metrics) + 1
  /\ \E k \in PageIdx : fetch[k].waits # <<>>

\* In every state of the sequential strategy: the outstanding request is at
\* a multiple of the limit, all pages before it were full and are held in
\* request order; once the look-back query is out, the last page requested
\* was the first short one and everything has been appended.
C30_StateOrder ==
  strategy = "sequential" =>
    /\ seqOffset % QueryLimit = 0
    /\ pc = "seq" =>
         /\ seqOffset <= Len(backend)
         /\ metrics = SubSeq(backend, 1, seqOffset)
    /\ pc \in {"backfill", "done"} =>
         /\ seqOffset - QueryLimit <= Len(backend)
         /\ Len(backend) < seqOffset
         /\ metrics = backend
    /\ pc = "done" => raw = metrics \o LastPointOfPreviousPeriod(prevPoints, from)

\* In every step of the sequential strategy: the next page is requested by
\* the step that receives a full page, at the next offset; the look-back
\* query is sent by the step that receives a short page; the sequence is
\* returned by the step that receives the look-back response.
C30_StepOrder ==
  strategy = "sequential" =>
    /\ seqOffset' # seqOffset =>
         /\ pc = "seq"
         /\ seqOffset' = seqOffset + QueryLimit
         /\ pc' = "seq" <=> Len(Page(seqOffset, QueryLimit)) = QueryLimit
         /\ pc' = "backfill" <=> Len(Page(seqOffset, QueryLimit)) < QueryLimit
         /\ metrics' = metrics \o Page(seqOffset, QueryLimit)
    /\ (pc' = "backfill" /\ pc # "backfill") => pc = "seq"
    /\ (pc' = "done" /\ pc # "done") => pc = "backfill"
    /\ pc \in {"done", "failed"} => pc' = pc

\* C30: the sequential strategy requests the pages at offsets 0, limit,
\* 2*limit, ... one at a time, goes on exactly while the last page was full,
\* stops at the first short page, appends in request order and performs the
\* back-fill once, after the last page.
C30_SequentialPagination == []C30_StateOrder /\ [][C30_StepOrder]_vars

\* Three pages, the last one short, and the look-back point have been
\* returned.
C30_Witness ==
  /\ strategy = "sequential"
  /\ pc = "done"
  /\ Len(backend) = 2 * QueryLimit + 1
  /\ seqOffset = 3 * QueryLimit
  /\ prevPoints # <<>>
  /\ Len(raw) = Len(backend) + 1

\* C31: the sequential strategy makes no wasted request: with a non-empty
\* window of any size, a multiple of the limit included, the page its
\* outstanding request asks for holds at least one point.
C31_NoWastedRequest ==
  (strategy = "sequential" /\ pc = "seq" /\ backend # <<>>) =>
    Page(seqOffset, QueryLimit) # <<>>

\* The page fetches of the batch that have been called.
Called == {k \in PageIdx : fetch[k].st # "idle"}

RECURSIVE ConcatByOffset(_, _, _)
ConcatByOffset(f, k, n) ==
  IF k >= n THEN <<>> ELSE f[k].result \o ConcatByOffset(f, k + 1, n)

\* C33: whatever the order in which the concurrent page fetches complete,
\* the merged pages are the page results in offset order, and the sequence
\* returned is a function of the backend content alone: with every page
\* answered by its data, the window's points and the back-fill point,
\* sorted.
C33_DeterministicReassembly ==
  (strategy = "parallel" /\ path = "parallel" /\ pc \in {"backfill", "done"}) =>
    /\ metrics = ConcatByOffset(fetch, 0, pagesNeeded)
    /\ (pc = "done" /\ CleanParallelRun) =>
         /\ metrics = backend
         /\ raw = SortByTime(backend \o LastPointOfPreviousPeriod(prevPoints, from))

\* The pages of a batch have completed in an order that is not the offset
\* order, and the sequence has been returned.
C33_Witness ==
  /\ strategy = "parallel"
  /\ path = "parallel"
  /\ pc = "done"
  /\ CleanParallelRun
  /\ pagesNeeded = 3
  /\ sched.settled = <<1, 0, 2>>
  /\ prevPoints # <<>>

\* The samples of a call with more than one point, a positive deviation and
\* a positive bin size.
SamplingCall ==
  /\ gen.pc \in {"loop", "returned"}
  /\ args.dataLength > 1
  /\ args.standardDeviation > 0
  /\ args.binSize > 0

\* C35: with n > 1, sd > 0 and binSize > 0 the x-values are
\* mean - 5 * sd + k * binSize for k = 0, 1, 2, ..., strictly increasing and
\* at most mean + 5 * sd, and the returned grid is maximal; a loop that
\* ends after finitely many samples never takes the same x twice.
C35_SamplingGrid ==
  SamplingCall =>
    LET lo == args.mean - 5 * args.standardDeviation
        hi == args.mean + 5 * args.standardDeviation
        n  == Len(gen.xValues)
    IN /\ \A k \in 1..n : gen.xValues[k] = lo + (k - 1) * args.binSize
       /\ \A k \in 1..n : gen.xValues[k] <= hi
       /\ \A k \in 1..(n - 1) : gen.xValues[k] < gen.xValues[k + 1]
       /\ gen.pc = "loop" => gen.x = lo + n * args.binSize
       /\ gen.pc = "returned" =>
            /\ n >= 1
            /\ gen.xValues[n] + args.binSize > hi
            /\ Len(gen.ret) = n

\* The last response page fetch f has received.
LastOf(f) == f.responses[Len(f.responses)]

\* In every state, for a page fetch that has been called: one request per
\* response plus the outstanding one, at most DefaultRetries + 1 of them;
\* every response before the last is a rate-limit response; retries is the
\* default less the retries made; a response that is not a rate-limit one,
\* or the rate-limit response received with no retry left, has ended the
\* call chain, which returns the points of that response (none if it has
\* none) or throws if the response cannot be read.
C36_StateOfPageFetch ==
  \A i \in PageIdx :
    LET f == fetch[i]
        n == Len(f.responses)
    IN f.st # "idle" =>
         /\ f.requests <= DefaultRetries + 1
         /\ f.requests = IF f.st = "inflight" THEN n + 1 ELSE n
         /\ f.retries = DefaultRetries - (f.requests - 1)
         /\ f.offset = i * QueryLimit
         /\ f.limit = QueryLimit
         /\ \A j \in 1..(n - 1) : f.responses[j] = "rate"
         /\ f.st = "backoff" => (LastOf(f) = "rate" /\ f.retries > 0)
         /\ f.st = "settled" =>
              /\ (LastOf(f) # "rate" \/ n = DefaultRetries + 1)
              /\ f.thrown <=> LastOf(f) = "bad"
              /\ ~f.thrown =>
                   f.result = IF LastOf(f) = "ok"
                              THEN Page(f.offset, f.limit) ELSE <<>>
         /\ f.st # "settled" =>
              \A j \in 1..n : f.responses[j] = "rate"

\* In every step: a page fetch that has been called sends a request only
\* as the retry after a rate-limit response, for the same offset and limit
\* and with one retry less.
C36_StepOfPageFetch ==
  \A i \in PageIdx :
    (fetch[i].st # "idle" /\ fetch'[i].requests # fetch[i].requests) =>
      /\ fetch[i].st = "backoff"
      /\ LastOf(fetch[i]) = "rate"
      /\ fetch'[i].requests = fetch[i].requests + 1
      /\ fetch'[i].retries = fetch[i].retries - 1
      /\ fetch'[i].offset = fetch[i].offset
      /\ fetch'[i].limit = fetch[i].limit

\* C36: a page fetch issues at most four requests; it retries only directly
\* after a rate-limit response, with the same offset and limit and retries
\* decremented by one; the first response that is not a rate-limit response
\* ends it with that response's points.
C36_PageFetchRetries == []C36_StateOfPageFetch /\ [][C36_StepOfPageFetch]_vars

\* A page fetch was rate-limited three times and returned the page of its
\* fourth request.
C36_Witness ==
  \E i \in PageIdx :
    /\ fetch[i].st = "settled"
    /\ fetch[i].requests = DefaultRetries + 1
    /\ fetch[i].responses = <<"rate", "rate", "rate", "ok">>
    /\ fetch[i].retries = 0
    /\ fetch[i].result # <<>>

\* C39: loading is true whenever at least one updateChart call is in
\* flight, and false only when none is, whatever the interleaving of the
\* overlapping updates and however they end.
C39_LoadingWhileInFlight ==
  /\ (\E k \in 1..MaxUpdates : upd[k].st = "fetching") => view.loading
  /\ (Started # {} /\ \A k \in Started : upd[k].st = "done") => ~view.loading

(* --------- overlapping calls of _fetchWithConcurrencyLimit ------------ *)
\* What task i of call b resolves with: the page at offset i * queryLimit
\* of the window of the invocation that made call b.
PageOf(b, i) == <<[batch |-> b, offset |-> i * QueryLimit]>>

\* Locals kept in one place for all calls.
SharedLocals(b) == 1

\* The activation whose `results` and `executing` the wrappers of call b
\* write to, and whose caller's completedPages its tasks increment: these
\* are variables declared inside the calls, so each call has its own.
Locals(b) == b

\* The tasks called by a run of the loop.
TasksStarted(task, before, after) ==
  [k \in PageIdx |->
     IF k \in after.executing \ before.executing THEN "inflight" ELSE task[k]]

\* Call b of _fetchWithConcurrencyLimit, with n tasks: results and
\* executing are created and the loop runs up to its first await.
CallFetchWithConcurrencyLimit(b, n, maxC) ==
  /\ batches[b].st = "idle"
  /\ IF b = 1 THEN TRUE ELSE batches[b - 1].st # "idle"
  /\ LET s0 == [IdleSched EXCEPT !.pc = "loop"]
         s1 == RunLoop(s0, n, maxC)
     IN batches' = [batches EXCEPT
                      ![b].st = "running",
                      ![b].tasks = n,
                      ![b].maxConcurrent = maxC,
                      ![b].task = TasksStarted(@, s0, s1),
                      ![Locals(b)].sched = s1,
                      ![Locals(b)].completedPages = 0]
  /\ UNCHANGED <<fetchVars, drawVars, viewVars, rangeVars>>

\* The page fetch of task i of call b ends.  If it returned, the task
\* counts it and reports progress, and the wrapper stores the result; in
\* both cases the wrapper deletes its registry entry and settles.
TaskSettles(b, i, ok) ==
  /\ batches[b].task[i] = "inflight"
  /\ LET l == Locals(b)
         c == batches[l].completedPages + 1
     IN batches' = [batches EXCEPT
                      ![b].task[i] = IF ok THEN "ok" ELSE "failed",
                      ![b].progress =
                         IF ok
                         THEN Append(@, Event("Fetching data...", c,
                                              batches[b].tasks))
                         ELSE @,
                      ![l].completedPages = IF ok THEN c ELSE @,
                      ![l].sched = WrapperSettles(@, i, ok, PageOf(b, i))]
  /\ UNCHANGED <<fetchVars, drawVars, viewVars, rangeVars>>

\* Call b runs on after its await: a rejected race or all throws, a
\* resolved race continues the loop, a resolved all returns `results`.
BatchResume(b) ==
  /\ batches[b].st = "running"
  /\ LET l == Locals(b)
         s == batches[l].sched
     IN /\ s.pc \in {"race", "all"}
        /\ s.waitOutcome \in {"resolved", "rejected"}
        /\ IF s.waitOutcome = "rejected"
           THEN batches' = [batches EXCEPT ![b].st = "failed",
                                           ![l].sched.pc = "failed"]
           ELSE IF s.pc = "race"
           THEN LET s1 == RunLoop(s, batches[b].tasks,
                                  batches[b].maxConcurrent)
                IN batches' = [batches EXCEPT
                                 ![b].task = TasksStarted(@, s, s1),
                                 ![l].sched = s1]
           ELSE batches' = [batches EXCEPT ![b].st = "returned",
                                           ![b].ret = s.results,
                                           ![l].sched.pc = "returned"]
  /\ UNCHANGED <<fetchVars, drawVars, viewVars, rangeVars>>

BatchInit ==
  /\ FetchAtRest
  /\ DrawAtRest
  /\ ViewAtRest
  /\ BatchAtRest
  /\ RangeAtRest

BatchNext ==
  \/ \E b \in Calls, n \in 0..MaxPages,
        maxC \in 1..MaxConcurrentBound :
       CallFetchWithConcurrencyLimit(b, n, maxC)
  \/ \E b \in Calls, i \in PageIdx, ok \in BOOLEAN :
       TaskSettles(b, i, ok)
  \/ \E b \in Calls : BatchResume(b)

BatchSpec == BatchInit /\ [][BatchNext]_vars

\* Every task that has been called completes, and the continuation of an
\* await whose promise has settled is run.
FairBatchSpec ==
  /\ BatchSpec
  /\ \A b \in Calls : WF_vars(BatchResume(b))
  /\ \A b \in Calls, i \in PageIdx :
       WF_vars(\E ok \in BOOLEAN : TaskSettles(b, i, ok))

\* C34: the results buffer, the registry and the completed-page counter of
\* one batch are written only by that batch, however two batches overlap:
\* a result slot holds the page of its own batch and index, the registry
\* holds the batch's own tasks in flight, and the counter and the progress
\* calls count the batch's own completions.
C34_BatchStateIsPrivate ==
  \A b \in Calls :
    LET B  == batches[b]
        ok == {i \in PageIdx : B.task[i] = "ok"}
    IN /\ \A k \in PageIdx :
            /\ B.sched.results[k].filled <=> k \in ok
            /\ B.sched.results[k].filled =>
                 B.sched.results[k].value = PageOf(b, k)
       /\ B.sched.executing = {i \in PageIdx : B.task[i] = "inflight"}
       /\ B.completedPages = Cardinality(ok)
       /\ Len(B.progress) = Cardinality(ok)
       /\ \A j \in 1..Len(B.progress) :
            B.progress[j] = Event("Fetching data...", j, B.tasks)

\* Two batches are in flight at once, each with a page stored and a page
\* outstanding.
C34_Witness ==
  /\ batches[1].st = "running"
  /\ batches[2].st = "running"
  /\ batches[1].completedPages = 2
  /\ batches[2].completedPages = 1
  /\ batches[1].sched.executing # {}
  /\ batches[2].sched.executing # {}

\* A call that has returned without a failed task has started every task
\* once, in order, has an empty registry and a result in every slot; a
\* call that waits, waits for a task that is still in flight.
C37_ReturnsComplete ==
  \A b \in Calls :
    LET B == batches[b]
    IN /\ (B.st = "returned" /\ \A i \in PageIdx : B.task[i] # "failed") =>
            /\ B.sched.started = [k \in 1..B.tasks |-> k - 1]
            /\ B.sched.executing = {}
            /\ \A k \in 0..(B.tasks - 1) :
                 /\ B.ret[k].filled
                 /\ B.ret[k].value = PageOf(b, k)
       /\ (B.st = "running" /\ B.sched.waitOutcome = "pending") =>
            /\ B.sched.waitSet # {}
            /\ \A i \in B.sched.waitSet : B.task[i] = "inflight"

\* C37: a call of _fetchWithConcurrencyLimit whose tasks all complete
\* successfully eventually returns, for every maxConcurrent >= 1 and every
\* number of tasks, none included; it then has started every task exactly
\* once, its registry is empty and every result slot is filled; it never
\* waits on an empty or already completed registry.
C37_SchedulerReturns ==
  /\ []C37_ReturnsComplete
  /\ \A b \in Calls :
       (batches[b].st = "running") ~>
         (\/ batches[b].st = "returned"
          \/ \E i \in PageIdx : batches[b].task[i] = "failed")

\* A call with more tasks than maxConcurrent has returned after all its
\* tasks succeeded.
C37_Witness ==
  /\ batches[1].st = "returned"
  /\ batches[1].tasks = 3
  /\ batches[1].maxConcurrent = 2
  /\ \A k \in 0..2 : batches[1].ret[k].filled
  /\ batches[1].sched.executing = {}

\* A call without tasks has returned.
C37_WitnessNoTask ==
  /\ batches[1].st = "returned"
  /\ batches[1].tasks = 0

(* ------- one invocation and the time range of the context ------------- *)
\* A request as the API receives it: the query and the window of its body.
Request(query, start, end) == [query |-> query, start |-> start, end |-> end]

\* The body of the count query and of a page request: start and end are
\* read from context.timeRange when the body is built.
WindowRequest(query, range) ==
  Request(query, ToIXONISOString(range.from), ToIXONISOString(range.to))

\* The body of the look-back query: from the epoch to context.timeRange.from
\* as it is when the body is built.
LookBackRequest(range) ==
  Request("lookback", ToIXONISOString(0), ToIXONISOString(range.from))

\* Have all page fetches that were called ended?
AllPagesEnded(page) == \A k \in PageIdx : page[k].st \in {"idle", "ended"}

\* getAllRawMetrics is called and sends the count query.
SendCountQuery ==
  /\ invocation.pc = "idle"
  /\ invocation' = [invocation EXCEPT
                      !.pc = "count",
                      !.requests = {WindowRequest("count", timeRange)}]
  /\ UNCHANGED <<fetchVars, drawVars, viewVars, batchVars, timeRange>>

\* The count query is answered with a count that needs n pages (at most
\* maxConcurrent of them): without points the look-back query is sent, else
\* every page fetch is called and sends its request.
CountAnswered(n) ==
  /\ invocation.pc = "count"
  /\ invocation' =
       IF n = 0
       THEN [invocation EXCEPT
               !.pc = "backfill",
               !.requests = @ \cup {LookBackRequest(timeRange)}]
       ELSE [invocation EXCEPT
               !.pc = "pages",
               !.pages = n,
               !.page = [k \in PageIdx |->
                           IF k < n
                           THEN [st |-> "inflight", retries |-> DefaultRetries]
                           ELSE IdlePage],
               !.requests = @ \cup {WindowRequest("page", timeRange)}]
  /\ UNCHANGED <<fetchVars, drawVars, viewVars, batchVars, timeRange>>

\* The request of page fetch k is answered.  A rate-limit response with
\* retries left starts the backoff wait; any other response ends the page
\* fetch, and when the last page fetch has ended the orchestrator sends the
\* look-back query.
PageAnswered(k, kind) ==
  /\ invocation.pc = "pages"
  /\ invocation.page[k].st = "inflight"
  /\ IF Retries(invocation.page[k], kind)
     THEN invocation' = [invocation EXCEPT !.page[k].st = "backoff"]
     ELSE LET page == [invocation.page EXCEPT ![k].st = "ended"]
          IN invocation' =
               IF AllPagesEnded(page)
               THEN [invocation EXCEPT
                       !.page = page,
                       !.pc = "backfill",
                       !.requests = @ \cup {LookBackRequest(timeRange)}]
               ELSE [invocation EXCEPT !.page = page]
  /\ UNCHANGED <<fetchVars, drawVars, viewVars, batchVars, timeRange>>

\* The backoff timer of page fetch k fires: _fetchRawDataPage calls itself
\* with one retry less, builds the body again and sends it.
RetryAfterBackoff(k) ==
  /\ invocation.pc = "pages"
  /\ invocation.page[k].st = "backoff"
  /\ invocation' = [invocation EXCEPT
                      !.page[k].st = "inflight",
                      !.page[k].retries = @ - 1,
                      !.requests = @ \cup {WindowRequest("page", timeRange)}]
  /\ UNCHANGED <<fetchVars, drawVars, viewVars, batchVars, timeRange>>

\* The look-back query is answered and the invocation returns.
LookBackAnswered ==
  /\ invocation.pc = "backfill"
  /\ invocation' = [invocation EXCEPT !.pc = "done"]
  /\ UNCHANGED <<fetchVars, drawVars, viewVars, batchVars, timeRange>>

\* The user selects another time range: the host sets context.timeRange.
TimeRangeChanges(range) ==
  /\ range # timeRange
  /\ timeRange' = range
  /\ UNCHANGED <<fetchVars, drawVars, viewVars, batchVars, invocation>>

RangeInit ==
  /\ FetchAtRest
  /\ DrawAtRest
  /\ ViewAtRest
  /\ BatchAtRest
  /\ timeRange \in TimeRanges
  /\ invocation = IdleInvocation

RangeNext ==
  \/ SendCountQuery
  \/ \E n \in 0..MaxPages : CountAnswered(n)
  \/ \E k \in PageIdx, kind \in {"ok", "rate"} : PageAnswered(k, kind)
  \/ \E k \in PageIdx : RetryAfterBackoff(k)
  \/ LookBackAnswered
  \/ \E range \in TimeRanges : TimeRangeChanges(range)

RangeSpec == RangeInit /\ [][RangeNext]_vars

\* The start of the window a request is for.
WindowStart(r) == IF r.query = "lookback" THEN r.end ELSE r.start

\* C38: every request of one invocation, the count query, each page request
\* (retries included) and the look-back query, is for the same window,
\* even if context.timeRange changes while the invocation is in flight.
C38_SameWindow ==
  \A r1, r2 \in invocation.requests :
    /\ WindowStart(r1) = WindowStart(r2)
    /\ (r1.query # "lookback" /\ r2.query # "lookback") => r1.end = r2.end

====
